---- MODULE Spec2Model ----
(***************************************************************************)
(* Model of the scenario-to-code generation pipeline of the MCP tools:     *)
(* the story parser (utils/requirements_parser.py), the scenario-to-test   *)
(* mapper and the template synthesizers (utils/code_generator.py) and the  *)
(* tool entry points that wrap them (tools/tool_0x_*.py).                  *)
(*                                                                         *)
(* Python str values are TLA+ strings; Len, \o, SubSeq, Head and Tail are  *)
(* used on them as on sequences of characters, so that substring tests,    *)
(* case folding, stripping and splitting are computed character by         *)
(* character as the source does.  A dict is a record (or a function from   *)
(* key strings), a list is a sequence, None is the empty sequence.         *)
(***************************************************************************)
EXTENDS Integers, Sequences, FiniteSets, TLC

----------------------------------------------------------------------------
(* Bounds of the explored inputs.                                          *)

\* Number of text segments a story is assembled from.
MaxSegs == 3

\* Number of method names drawn for the first page object of a task.
MaxMethods == 3

----------------------------------------------------------------------------
(* Python str primitives.                                                  *)

Char(s, k) == SubSeq(s, k, k)

SetMin(S) == CHOOSE x \in S : \A y \in S : x <= y

SetMax(S) == CHOOSE x \in S : \A y \in S : x >= y

UpperAlphabet == "ABCDEFGHIJKLMNOPQRSTUVWXYZ"

LowerAlphabet == "abcdefghijklmnopqrstuvwxyz"

Digits == "0123456789"

\* str.isspace for one character (also the regex class \s)
IsSpace(c) == c \in {" ", "\t", "\n", "\r", "\f"}

IsUpperChar(c) == \E k \in 1..26 : Char(UpperAlphabet, k) = c

IsLowerChar(c) == \E k \in 1..26 : Char(LowerAlphabet, k) = c

IsDigitChar(c) == \E k \in 1..10 : Char(Digits, k) = c

\* the regex class \w
IsWordChar(c) == IsUpperChar(c) \/ IsLowerChar(c) \/ IsDigitChar(c) \/ c = "_"

LowerChar(c) ==
    IF IsUpperChar(c)
    THEN Char(LowerAlphabet, CHOOSE k \in 1..26 : Char(UpperAlphabet, k) = c)
    ELSE c

UpperChar(c) ==
    IF IsLowerChar(c)
    THEN Char(UpperAlphabet, CHOOSE k \in 1..26 : Char(LowerAlphabet, k) = c)
    ELSE c

RECURSIVE Lower(_)
\* str.lower
Lower(s) == IF Len(s) = 0 THEN "" ELSE LowerChar(Head(s)) \o Lower(Tail(s))

\* str.strip
Strip(s) ==
    LET keep == {k \in 1..Len(s) : ~IsSpace(Char(s, k))}
    IN  IF keep = {} THEN "" ELSE SubSeq(s, SetMin(keep), SetMax(keep))

\* str.startswith
StartsWith(s, p) == Len(s) >= Len(p) /\ SubSeq(s, 1, Len(p)) = p

\* the operator  kw in s  on strings
Contains(s, kw) ==
    \E k \in 1..(Len(s) - Len(kw) + 1) : SubSeq(s, k, k + Len(kw) - 1) = kw

\* str.find, 1-based; 0 when kw does not occur
Find(s, kw) ==
    IF Contains(s, kw)
    THEN SetMin({k \in 1..(Len(s) - Len(kw) + 1) : SubSeq(s, k, k + Len(kw) - 1) = kw})
    ELSE 0

RECURSIVE Split(_, _)
\* str.split(sep) for a one-character separator
Split(s, sep) ==
    LET k == Find(s, sep)
    IN  IF k = 0 THEN <<s>>
        ELSE <<SubSeq(s, 1, k - 1)>> \o Split(SubSeq(s, k + 1, Len(s)), sep)

\* str.split(sep, 1)
SplitOnce(s, sep) ==
    LET k == Find(s, sep)
    IN  IF k = 0 THEN <<s>>
        ELSE <<SubSeq(s, 1, k - 1), SubSeq(s, k + 1, Len(s))>>

RECURSIVE Replace(_, _, _)
\* str.replace(old, new), old non-empty
Replace(s, old, new) ==
    LET k == Find(s, old)
    IN  IF k = 0 THEN s
        ELSE SubSeq(s, 1, k - 1) \o new
             \o Replace(SubSeq(s, k + Len(old), Len(s)), old, new)

RECURSIVE Join(_, _)
\* sep.join(parts)
Join(parts, sep) ==
    IF Len(parts) = 0 THEN ""
    ELSE IF Len(parts) = 1 THEN parts[1]
    ELSE parts[1] \o sep \o Join(Tail(parts), sep)

\* index of the first character of s at or after k that is not whitespace
SkipSpaces(s, k) ==
    LET rest == {j \in k..Len(s) : ~IsSpace(Char(s, j))}
    IN  IF rest = {} THEN Len(s) + 1 ELSE SetMin(rest)

\* re.split(kw + r'\s*:?\s*', line, maxsplit=1, flags=re.IGNORECASE)
ReSplitKeyword(line, kw) ==
    LET k  == Find(Lower(line), kw)
        a  == SkipSpaces(line, k + Len(kw))
        b  == IF a <= Len(line) /\ Char(line, a) = ":" THEN a + 1 ELSE a
        c  == SkipSpaces(line, b)
    IN  IF k = 0 THEN <<line>>
        ELSE <<SubSeq(line, 1, k - 1), SubSeq(line, c, Len(line))>>

\* dict.get(key, default)
Get(d, key, default) == IF key \in DOMAIN d THEN d[key] ELSE default

----------------------------------------------------------------------------
(* State.                                                                  *)

VARIABLES
    story_args,        \* tool 1: the arguments dict {user_story, workflow}
    story_pc,          \* tool 1: position in generate_tests_from_user_story
    lines,             \* extract_scenarios: user_story.split('\n')
    line_no,           \* extract_scenarios: 1-based position of the loop
    current_scenario,  \* extract_scenarios: <<>> for None, else <<dict>>
    scenarios,         \* extract_scenarios: the list being built
    story_result,      \* tool 1: the returned envelope (the JSON object)
    map_args,          \* mapper: the arguments {workflow, scenario}
    map_pc,            \* mapper: "call" before, "done" after the call
    map_out,           \* mapper: the returned (test_data, actions, assertions)
    test_args,         \* tool 6: the arguments dict (any key may be absent)
    test_pc,           \* tool 6: "call" before, "done" after the call
    test_result,       \* tool 6: the returned envelope
    task_args,         \* task synthesizer: {task_name, workflow_description, page_objects}
    task_pc,           \* task synthesizer: "call", then "done" or "raised"
    task_code,         \* task synthesizer: the returned source text
    tool4_args,        \* tool 4: the arguments dict (any key may be absent)
    tool4_pc,          \* tool 4: "call" before, "done" after the call
    tool4_result,      \* tool 4: the returned envelope
    ex_node,           \* _extract_element_data: the web element (its attributes as the driver reports them)
    ex_type,           \* _extract_element_data: the category the element was found under
    ex_index,          \* _extract_element_data: the position of the element in its category
    ex_pc,             \* _extract_element_data: "call" before, "done" after the call
    ex_out,            \* _extract_element_data: <<>> for None, else <<dict>>
    tool3_args,        \* tool 3: the arguments dict (any key may be absent)
    tool3_pc,          \* tool 3: "call" before, "done" after the call
    tool3_result,      \* tool 3: the returned envelope
    pom_args,          \* page-object synthesizer: the arguments {page_name, elements}
    pom_pc,            \* page-object synthesizer: "first", "between", "done"
    pom_first,         \* page-object synthesizer: the text the first call returned
    pom_second,        \* page-object synthesizer: the text the second call returned
    pom_calls,         \* the number of synthesizer calls made so far
    pom_other,         \* the text the last other synthesizer call returned
    disc_page,         \* discover_elements: the nodes of the page in document order, each with its category
    disc_loads,        \* discover_elements: whether the driver loads the page
    disc_pc,           \* discover_elements: "start", "loop", then "done" or "raised"
    disc_type,         \* discover_elements: 1-based position in INTERACTIVE_SELECTORS
    disc_index,        \* discover_elements: the index of enumerate(elements)
    discovered,        \* discover_elements: the list being built
    path_args,         \* path resolver: component_type, name, workflow
    path_pc,           \* path resolver: position of the call
    path_out,          \* path resolver: the returned path
    name_args,         \* generate_test_name: the scenario dict
    name_pc,           \* generate_test_name: position of the calls
    name_out,          \* generate_test_name: the returned name
    name_again,        \* generate_test_name: the name of the scenario named name_out
    name_tool6,        \* tool 6: name_out after the prefixing of lines 57-59
    tool2_entry,       \* tool 2: the function called, tool or helper
    tool2_args,        \* tool 2: the arguments dict {url, headless}
    tool2_pc,          \* tool 2: position in discover_elements and in the helper
    tool2_result,      \* tool 2: the returned envelope
    driver,            \* tool 2: the browser driver, none, open or quit
    driver_owner,      \* tool 2: who created the driver
    created_driver,    \* discover_page_elements: its flag created_driver
    quit_calls,        \* tool 2: number of calls of driver.quit
    tool5_args,        \* tool 5: the arguments dict {role_name, capabilities, credentials}
    tool5_pc,          \* tool 5: position in generate_role
    tool5_result,      \* tool 5: the returned envelope
    synth_args,        \* test synthesizer: workflow and scenario
    synth_pc,          \* test synthesizer: position of the call
    synth_code         \* test synthesizer: the returned test code

\* State tuples, one per entry point.  These tuples, the other_than_*
\* tuples, the *Idle predicates and the Init/Next/Spec compositions only
\* arrange the state; they have no counterpart in the source.
story_vars ==
    <<story_args, story_pc, lines, line_no, current_scenario, scenarios,
      story_result>>

map_vars == <<map_args, map_pc, map_out>>

test_vars == <<test_args, test_pc, test_result>>

task_vars == <<task_args, task_pc, task_code>>

tool4_vars == <<tool4_args, tool4_pc, tool4_result>>

extract_vars == <<ex_node, ex_type, ex_index, ex_pc, ex_out>>

tool3_vars == <<tool3_args, tool3_pc, tool3_result>>

pom_vars == <<pom_args, pom_pc, pom_first, pom_second, pom_calls, pom_other>>

disc_vars == <<disc_page, disc_loads, disc_pc, disc_type, disc_index, discovered>>

path_vars == <<path_args, path_pc, path_out>>

name_vars == <<name_args, name_pc, name_out, name_again, name_tool6>>

tool2_vars == <<tool2_entry, tool2_args, tool2_pc, tool2_result, driver, driver_owner, created_driver, quit_calls>>

tool5_vars == <<tool5_args, tool5_pc, tool5_result>>

synth_vars == <<synth_args, synth_pc, synth_code>>

vars == <<story_vars, map_vars, test_vars, task_vars, tool4_vars, extract_vars, tool3_vars, pom_vars, disc_vars, path_vars, name_vars, tool2_vars, tool5_vars, synth_vars>>

\* the state an entry point does not touch
other_than_story == <<map_vars, test_vars, task_vars, tool4_vars, extract_vars, tool3_vars, pom_vars, disc_vars, path_vars, name_vars, tool2_vars, tool5_vars, synth_vars>>

other_than_map == <<story_vars, test_vars, task_vars, tool4_vars, extract_vars, tool3_vars, pom_vars, disc_vars, path_vars, name_vars, tool2_vars, tool5_vars, synth_vars>>

other_than_test == <<story_vars, map_vars, task_vars, tool4_vars, extract_vars, tool3_vars, pom_vars, disc_vars, path_vars, name_vars, tool2_vars, tool5_vars, synth_vars>>

other_than_task == <<story_vars, map_vars, test_vars, tool4_vars, extract_vars, tool3_vars, pom_vars, disc_vars, path_vars, name_vars, tool2_vars, tool5_vars, synth_vars>>

other_than_tool4 == <<story_vars, map_vars, test_vars, task_vars, extract_vars, tool3_vars, pom_vars, disc_vars, path_vars, name_vars, tool2_vars, tool5_vars, synth_vars>>

other_than_extract == <<story_vars, map_vars, test_vars, task_vars, tool4_vars, tool3_vars, pom_vars, disc_vars, path_vars, name_vars, tool2_vars, tool5_vars, synth_vars>>

other_than_tool3 == <<story_vars, map_vars, test_vars, task_vars, tool4_vars, extract_vars, pom_vars, disc_vars, path_vars, name_vars, tool2_vars, tool5_vars, synth_vars>>

other_than_pom == <<story_vars, map_vars, test_vars, task_vars, tool4_vars, extract_vars, tool3_vars, disc_vars, path_vars, name_vars, tool2_vars, tool5_vars, synth_vars>>

other_than_disc == <<story_vars, map_vars, test_vars, task_vars, tool4_vars, extract_vars, tool3_vars, pom_vars, path_vars, name_vars, tool2_vars, tool5_vars, synth_vars>>

other_than_path == <<story_vars, map_vars, test_vars, task_vars, tool4_vars, extract_vars, tool3_vars, pom_vars, disc_vars, name_vars, tool2_vars, tool5_vars, synth_vars>>

other_than_name == <<story_vars, map_vars, test_vars, task_vars, tool4_vars, extract_vars, tool3_vars, pom_vars, disc_vars, path_vars, tool2_vars, tool5_vars, synth_vars>>

other_than_tool2 == <<story_vars, map_vars, test_vars, task_vars, tool4_vars, extract_vars, tool3_vars, pom_vars, disc_vars, path_vars, name_vars, tool5_vars, synth_vars>>

other_than_tool2_disc == <<story_vars, map_vars, test_vars, task_vars, tool4_vars, extract_vars, tool3_vars, pom_vars, path_vars, name_vars, tool5_vars, synth_vars>>

other_than_tool5 == <<story_vars, map_vars, test_vars, task_vars, tool4_vars, extract_vars, tool3_vars, pom_vars, disc_vars, path_vars, name_vars, tool2_vars, synth_vars>>

other_than_synth == <<story_vars, map_vars, test_vars, task_vars, tool4_vars, extract_vars, tool3_vars, pom_vars, disc_vars, path_vars, name_vars, tool2_vars, tool5_vars>>

----------------------------------------------------------------------------
(* Story parser: utils/requirements_parser.py                              *)

\* the dict literal of a fresh scenario
NewScenario(name) == [name |-> name, given |-> "", when |-> "", then |-> ""]

\* a line that starts a scenario explicitly
IsScenarioMarker(lower_line) ==
    StartsWith(lower_line, "scenario:") \/ StartsWith(lower_line, "## scenario")

\* a mutation of OpensScenario: any step keyword opens a scenario
OpensScenarioAnyKeyword(lower_line) ==
    \/ StartsWith(lower_line, "given")
    \/ StartsWith(lower_line, "when")
    \/ StartsWith(lower_line, "then")

\* line 124: outside a scenario, only a Given line opens one
OpensScenario(lower_line) == StartsWith(lower_line, "given")

\* scenario name of a marker line, given the list length after the flush
ScenarioName(line, count) ==
    IF Contains(line, ":") THEN Strip(SplitOnce(line, ":")[2])
    ELSE "Scenario " \o ToString(count + 1)

\* a mutation of AppendAnd: the fields are tried in the order given, when,
\* then
AppendAndGivenFirst(sc, and_text) ==
    IF sc.given # "" THEN [sc EXCEPT !.given = @ \o " AND " \o and_text]
    ELSE IF sc.when # "" THEN [sc EXCEPT !.when = @ \o " AND " \o and_text]
    ELSE IF sc.then # "" THEN [sc EXCEPT !.then = @ \o " AND " \o and_text]
    ELSE sc

\* the "and" branch: append to then, else when, else given, else nothing
AppendAnd(sc, and_text) ==
    IF sc.then # "" THEN [sc EXCEPT !.then = @ \o " AND " \o and_text]
    ELSE IF sc.when # "" THEN [sc EXCEPT !.when = @ \o " AND " \o and_text]
    ELSE IF sc.given # "" THEN [sc EXCEPT !.given = @ \o " AND " \o and_text]
    ELSE sc

\* the Given/When/Then/And classification of one stripped line
ApplyKeyword(sc, line) ==
    LET lower_line == Lower(line)
    IN  IF StartsWith(lower_line, "given")
        THEN LET parts == ReSplitKeyword(line, "given")
             IN  IF Len(parts) > 1 THEN [sc EXCEPT !.given = Strip(parts[2])] ELSE sc
        ELSE IF StartsWith(lower_line, "when")
        THEN LET parts == ReSplitKeyword(line, "when")
             IN  IF Len(parts) > 1 THEN [sc EXCEPT !.when = Strip(parts[2])] ELSE sc
        ELSE IF StartsWith(lower_line, "then")
        THEN LET parts == ReSplitKeyword(line, "then")
             IN  IF Len(parts) > 1 THEN [sc EXCEPT !.then = Strip(parts[2])] ELSE sc
        ELSE IF StartsWith(lower_line, "and")
        THEN LET parts == ReSplitKeyword(line, "and")
             IN  IF Len(parts) > 1 THEN AppendAnd(sc, Strip(parts[2])) ELSE sc
        ELSE sc

\* the final flush: a pending scenario with any non-empty field
FinalScenarios(cur, scs) ==
    IF Len(cur) > 0 /\ (cur[1].given # "" \/ cur[1].when # "" \/ cur[1].then # "")
    THEN Append(scs, cur[1])
    ELSE scs

\* extract_title
extract_title(user_story) ==
    LET ls == Split(Strip(user_story), "\n")
        nonempty == {k \in 1..Len(ls) : Strip(ls[k]) # ""}
    IN  IF nonempty = {} THEN "Untitled User Story"
        ELSE Strip(ls[SetMin(nonempty)])

RECURSIVE RemovePunctuation(_)
\* re.sub(r'[^\w\s]', '', name)
RemovePunctuation(s) ==
    IF Len(s) = 0 THEN ""
    ELSE (IF IsWordChar(Head(s)) \/ IsSpace(Head(s)) THEN Head(s) ELSE "")
         \o RemovePunctuation(Tail(s))

RECURSIVE SpacesToUnderscore(_)
\* re.sub(r'\s+', '_', name)
SpacesToUnderscore(s) ==
    IF Len(s) = 0 THEN ""
    ELSE IF IsSpace(Head(s))
         THEN "_" \o SpacesToUnderscore(SubSeq(s, SkipSpaces(s, 1), Len(s)))
         ELSE Head(s) \o SpacesToUnderscore(Tail(s))

\* a mutation of generate_test_name: the prefix is added without looking
generate_test_name_always_prefixed(scenario, workflow) ==
    LET name0 == IF Get(scenario, "name", "") # ""
                    /\ scenario.name # "Scenario 1"
                 THEN scenario.name
                 ELSE IF Get(scenario, "when", "") # "" THEN scenario.when
                 ELSE Get(scenario, "then", "test")
    IN  "test_" \o SpacesToUnderscore(RemovePunctuation(Lower(name0)))

\* lines 169-197; scenario.get(...) reads a key that may be absent
generate_test_name(scenario, workflow) ==
    LET name0 == IF Get(scenario, "name", "") # ""
                    /\ scenario.name # "Scenario 1"
                 THEN scenario.name
                 ELSE IF Get(scenario, "when", "") # "" THEN scenario.when
                 ELSE Get(scenario, "then", "test")
        name1 == SpacesToUnderscore(RemovePunctuation(Lower(name0)))
    IN  IF StartsWith(name1, "test_") THEN name1 ELSE "test_" \o name1

\* a mutation of validate_scenario: one of the two fields is enough
validate_scenario_either(scenario) == scenario.when # "" \/ scenario.then # ""

validate_scenario(scenario) == scenario.when # "" /\ scenario.then # ""

----------------------------------------------------------------------------
(* Tool 1: tools/tool_01_generate_tests_from_user_story.py                 *)

\* Text segments the explored stories are assembled from.
StorySegments ==
    << "Given a\nWhen b\nThen c",
       "Scenario: s\nWhen e\nThen f",
       "Given a",
       "  when: b ",
       "Then c",
       "When",
       "then :",
       "And d",
       "Scenario: t",
       "## Scenario 2",
       "note" >>

\* The explored story texts: up to MaxSegs segments joined by newlines.
StoryTexts ==
    {""} \cup
    UNION {{Join([k \in 1..n |-> StorySegments[f[k]]], "\n") :
              f \in [1..n -> 1..Len(StorySegments)]} : n \in 1..MaxSegs}

StoryWorkflows == {"", "auth"}

PendingResult == [status |-> "pending"]

StoryInit ==
    /\ story_args \in [user_story : StoryTexts, workflow : StoryWorkflows]
    /\ story_pc = "start"
    /\ lines = <<>>
    /\ line_no = 1
    /\ current_scenario = <<>>
    /\ scenarios = <<>>
    /\ story_result = PendingResult

\* lines 35-48: the required-field checks
StoryRejectArgs ==
    /\ story_pc = "start"
    /\ story_args.user_story = "" \/ story_args.workflow = ""
    /\ story_result' =
         IF story_args.user_story = ""
         THEN [status |-> "error", error |-> "user_story is required"]
         ELSE [status |-> "error",
               error |-> "workflow is required (auth, catalog, cart, checkout)"]
    /\ story_pc' = "done"
    /\ UNCHANGED <<story_args, lines, line_no, current_scenario, scenarios>>
    /\ UNCHANGED other_than_story

\* lines 50-52 and extract_scenarios lines 99-102: enter the parser.
\* parse_user_story also computes the description and the acceptance
\* criteria; neither can raise and neither reaches the envelope, so they
\* are not part of the state.  No step of the parser raises, hence the
\* except branch of lines 96-103 has no transition.
StoryBeginParse ==
    /\ story_pc = "start"
    /\ story_args.user_story # "" /\ story_args.workflow # ""
    /\ lines' = Split(story_args.user_story, "\n")
    /\ line_no' = 1
    /\ current_scenario' = <<>>
    /\ scenarios' = <<>>
    /\ story_pc' = "parse"
    /\ UNCHANGED <<story_args, story_result>>
    /\ UNCHANGED other_than_story

\* extract_scenarios lines 104-160: one iteration of the loop over lines
ParseLine ==
    /\ story_pc = "parse"
    /\ line_no <= Len(lines)
    /\ LET line == Strip(lines[line_no])
           lower_line == Lower(line)
       IN  IF IsScenarioMarker(lower_line)
           THEN LET flushed == IF Len(current_scenario) > 0
                               THEN Append(scenarios, current_scenario[1])
                               ELSE scenarios
                IN  /\ scenarios' = flushed
                    /\ current_scenario' =
                         <<NewScenario(ScenarioName(line, Len(flushed)))>>
           ELSE LET opened == IF Len(current_scenario) = 0
                                 /\ OpensScenario(lower_line)
                              THEN <<NewScenario("Scenario "
                                        \o ToString(Len(scenarios) + 1))>>
                              ELSE current_scenario
                IN  /\ current_scenario' =
                         IF Len(opened) > 0
                         THEN <<ApplyKeyword(opened[1], line)>>
                         ELSE opened
                    /\ UNCHANGED scenarios
    /\ line_no' = line_no + 1
    /\ UNCHANGED <<story_args, story_pc, lines, story_result>>
    /\ UNCHANGED other_than_story

\* extract_scenarios lines 162-166: the final flush and the return
ParseEnd ==
    /\ story_pc = "parse"
    /\ line_no > Len(lines)
    /\ scenarios' = FinalScenarios(current_scenario, scenarios)
    /\ current_scenario' = <<>>
    /\ story_pc' = "build"
    /\ UNCHANGED <<story_args, lines, line_no, story_result>>
    /\ UNCHANGED other_than_story

\* the dict built for one valid scenario, lines 71-80
TestScenario(scenario, workflow) ==
    [name |-> generate_test_name(scenario, workflow),
     description |-> "Verify " \o scenario.when,
     given |-> scenario.given,
     when |-> scenario.when,
     then |-> scenario.then,
     workflow |-> workflow]

RECURSIVE BuildTestScenarios(_, _)
\* the loop of lines 67-82: invalid scenarios are skipped
BuildTestScenarios(scs, workflow) ==
    IF Len(scs) = 0 THEN <<>>
    ELSE (IF validate_scenario(Head(scs))
          THEN <<TestScenario(Head(scs), workflow)>>
          ELSE <<>>)
         \o BuildTestScenarios(Tail(scs), workflow)

\* lines 57-62: the parser returned no scenario
StoryNoScenarios ==
    /\ story_pc = "build"
    /\ Len(scenarios) = 0
    /\ story_result' =
         [status |-> "error",
          error |-> "No scenarios found in user story. Please include Given-When-Then scenarios.",
          hint |-> "Format: Given <context> When <action> Then <expected outcome>"]
    /\ story_pc' = "done"
    /\ UNCHANGED <<story_args, lines, line_no, current_scenario, scenarios>>
    /\ UNCHANGED other_than_story

\* lines 64-94: build and return the success envelope
StoryBuildResult ==
    /\ story_pc = "build"
    /\ Len(scenarios) > 0
    /\ LET test_scenarios == BuildTestScenarios(scenarios, story_args.workflow)
       IN  story_result' =
             [status |-> "success",
              user_story_title |-> extract_title(story_args.user_story),
              workflow |-> story_args.workflow,
              scenarios_count |-> Len(test_scenarios),
              scenarios |-> test_scenarios,
              next_step |-> "Use generate_test_template to create pytest test code from these scenarios"]
    /\ story_pc' = "done"
    /\ UNCHANGED <<story_args, lines, line_no, current_scenario, scenarios>>
    /\ UNCHANGED other_than_story

StoryNext ==
    \/ StoryRejectArgs
    \/ StoryBeginParse
    \/ ParseLine
    \/ ParseEnd
    \/ StoryNoScenarios
    \/ StoryBuildResult

----------------------------------------------------------------------------
(* Scenario-to-test-logic mapper: utils/code_generator.py lines 11-170     *)

\* a mutation of IsLoginScenario: only the login verbs of `when` count
IsLoginScenarioVerbsOnly(when, then) ==
    Contains(when, "login") \/ Contains(when, "log in") \/ Contains(when, "sign in")

\* lines 37-39: the condition of the LOGIN branch
IsLoginScenario(when, then) ==
    \/ Contains(when, "login") \/ Contains(when, "log in") \/ Contains(when, "sign in")
    \/ (Contains(when, "email") /\ Contains(when, "password"))
    \/ (Contains(then, "logged in") \/ Contains(then, "dashboard"))

\* lines 41-63: the fragments of a login scenario
LoginFragments(workflow, given, then) ==
    IF Contains(given, "valid") \/ Contains(given, "correct")
       \/ Contains(given, "registered")
    THEN << "test_email = \"test@example.com\"\n    test_password = \"Test123!\"",
            "result = " \o workflow \o "_tasks.login(test_email, test_password)",
            IF Contains(then, "success") \/ Contains(then, "logged in")
               \/ Contains(then, "dashboard")
            THEN "assert result is True, \"Login should succeed with valid credentials\""
            ELSE "assert result is True, \"Expected login to succeed\"" >>
    ELSE IF Contains(given, "invalid") \/ Contains(given, "incorrect")
            \/ Contains(given, "wrong")
    THEN << "test_email = \"invalid@example.com\"\n    test_password = \"WrongPassword123!\"",
            "result = " \o workflow \o "_tasks.login(test_email, test_password)",
            "assert result is False, \"Login should fail with invalid credentials\"" >>
    ELSE << "test_email = \"test@example.com\"\n    test_password = \"Test123!\"",
            "result = " \o workflow \o "_tasks.login(test_email, test_password)",
            "assert result is True, \"Login should succeed\"" >>

NoFragments == <<"", "", "">>

\* lines 34-88: workflow "auth"
AuthFragments(workflow, given, when, then) ==
    IF IsLoginScenario(when, then)
    THEN LoginFragments(workflow, given, then)
    ELSE IF Contains(when, "logout") \/ Contains(when, "log out")
            \/ Contains(when, "sign out")
    THEN << "# User must be logged in first\n    test_email = \"test@example.com\"\n    test_password = \"Test123!\"\n    "
              \o workflow \o "_tasks.login(test_email, test_password)",
            "result = " \o workflow \o "_tasks.logout()",
            "assert result is True, \"Logout should succeed\"" >>
    ELSE IF Contains(when, "register") \/ Contains(when, "sign up")
            \/ Contains(when, "create account")
    THEN << "from faker import Faker\n    fake = Faker()\n    test_email = fake.email()\n    test_password = \"NewUser123!\"\n    test_first_name = fake.first_name()\n    test_last_name = fake.last_name()",
            "result = " \o workflow \o "_tasks.register_new_user(\n        email=test_email,\n        password=test_password,\n        first_name=test_first_name,\n        last_name=test_last_name\n    )",
            "assert result is True, \"Registration should succeed\"" >>
    ELSE NoFragments

\* lines 91-113: workflow "catalog"
CatalogFragments(workflow, when) ==
    IF Contains(when, "browse") \/ Contains(when, "view")
       \/ Contains(when, "navigate")
    THEN IF Contains(when, "category")
         THEN << "category_name = \"Women\"",
                 "result = " \o workflow \o "_tasks.browse_category(category_name)",
                 "assert result is True, \"Should successfully browse category\"\n    assert "
                   \o workflow \o "_tasks.get_product_count() > 0, \"Category should have products\"" >>
         ELSE NoFragments
    ELSE IF Contains(when, "filter")
    THEN << "filter_criteria = {{\"size\": \"M\", \"color\": \"Blue\"}}",
            "result = " \o workflow \o "_tasks.filter_products(filter_criteria)",
            "assert result is True, \"Filters should be applied successfully\"" >>
    ELSE IF Contains(when, "sort")
    THEN << IF Contains(when, "price") THEN "sort_by = \"price_low_to_high\""
                                       ELSE "sort_by = \"name\"",
            "result = " \o workflow \o "_tasks.sort_products(sort_by)",
            "assert result is True, \"Products should be sorted successfully\"" >>
    ELSE NoFragments

\* lines 116-140: workflow "cart"
CartFragments(workflow, when) ==
    IF Contains(when, "add") /\ Contains(when, "cart")
    THEN << "product_name = \"Faded Short Sleeve T-shirts\"\n    quantity = 1",
            "result = " \o workflow \o "_tasks.add_to_cart(product_name, quantity)",
            "assert result is True, \"Product should be added to cart successfully\"\n    assert "
              \o workflow \o "_tasks.get_cart_count() > 0, \"Cart should contain items\"" >>
    ELSE IF Contains(when, "remove")
    THEN << "# Add item first\n    product_name = \"Faded Short Sleeve T-shirts\"\n    "
              \o workflow \o "_tasks.add_to_cart(product_name, 1)",
            "result = " \o workflow \o "_tasks.remove_from_cart(product_name)",
            "assert result is True, \"Product should be removed from cart\"" >>
    ELSE IF Contains(when, "update") \/ Contains(when, "change quantity")
    THEN << "# Add item first\n    product_name = \"Faded Short Sleeve T-shirts\"\n    "
              \o workflow \o "_tasks.add_to_cart(product_name, 1)\n    new_quantity = 3",
            "result = " \o workflow \o "_tasks.update_quantity(product_name, new_quantity)",
            "assert result is True, \"Quantity should be updated\"" >>
    ELSE NoFragments

\* lines 143-158: workflow "checkout"
CheckoutFragments(workflow, when) ==
    IF Contains(when, "checkout") \/ Contains(when, "place order")
    THEN << "# Add item to cart first\n    catalog_tasks = CatalogTasks(web_interface, base_url)\n    cart_tasks = CartTasks(web_interface, base_url)\n    cart_tasks.add_to_cart(\"Faded Short Sleeve T-shirts\", 1)\n\n    # Prepare shipping info\n    shipping_info = {{\n        \"address\": \"123 Test St\",\n        \"city\": \"Test City\",\n        \"state\": \"CA\",\n        \"zip\": \"90001\"\n    }}",
            "result = " \o workflow \o "_tasks.complete_checkout(shipping_info)",
            "assert result is True, \"Checkout should complete successfully\"" >>
    ELSE NoFragments

\* lines 25-158: the workflow-then-keyword dispatch, before the fallback
MatchedFragments(workflow, scenario) ==
    LET given == Lower(Get(scenario, "given", ""))
        when  == Lower(Get(scenario, "when", ""))
        then  == Lower(Get(scenario, "then", ""))
    IN  IF workflow = "auth" THEN AuthFragments(workflow, given, when, then)
        ELSE IF workflow = "catalog" THEN CatalogFragments(workflow, when)
        ELSE IF workflow = "cart" THEN CartFragments(workflow, when)
        ELSE IF workflow = "checkout" THEN CheckoutFragments(workflow, when)
        ELSE NoFragments

\* lines 161-168: the '# TODO' fallback fragments
FallbackFragments(workflow) ==
    << "# TODO: Add test data for " \o workflow \o " workflow",
       "# TODO: Implement " \o workflow \o " action based on scenario\n    # result = "
         \o workflow \o "_tasks.some_action()",
       "# TODO: Add assertions for " \o workflow
         \o " workflow\n    # assert result is True, \"Action should succeed\"" >>

\* a mutation of map_scenario_to_test_logic: the fallback is left out
map_scenario_to_test_logic_no_fallback(workflow, scenario) ==
    MatchedFragments(workflow, scenario)

map_scenario_to_test_logic(workflow, scenario) ==
    LET m == MatchedFragments(workflow, scenario)
        f == FallbackFragments(workflow)
    IN  [k \in 1..3 |-> IF m[k] = "" THEN f[k] ELSE m[k]]

\* the 'Successful login' scenario of the chaining tests
SuccessfulLoginScenario ==
    [given |-> "user is on login page",
     when  |-> "user enters valid email and password",
     then  |-> "user is logged in successfully"]

\* Explored mapper inputs.
MapWorkflows == {"auth", "catalog", "cart", "checkout", "payments", ""}

MapGivens ==
    { "user is on login page",
      "user has valid credentials",
      "User has INVALID credentials",
      "user typed a wrong password",
      "" }

MapWhens ==
    { "user enters valid email and password",
      "user clicks Login",
      "user clicks logout",
      "user registers",
      "user browses a category",
      "user views products",
      "user filters products",
      "user sorts by price",
      "user adds product to cart",
      "user removes the item",
      "user updates the quantity",
      "user places order",
      "user completes checkout",
      "user waits",
      "" }

MapThens ==
    { "user is logged in successfully",
      "user is not logged in",
      "an error message is shown",
      "" }

ScenarioKeys == {"given", "when", "then"}

\* scenario dicts with any subset of the three keys present
MapScenarios ==
    { [k \in keys |-> CASE k = "given" -> g [] k = "when" -> w [] k = "then" -> t] :
        keys \in SUBSET ScenarioKeys, g \in MapGivens, w \in MapWhens, t \in MapThens }

MapInit ==
    /\ map_args \in [workflow : MapWorkflows, scenario : MapScenarios]
    /\ map_pc = "call"
    /\ map_out = NoFragments

\* the mapper is not in use
MapIdle ==
    /\ map_args = [workflow |-> "", scenario |-> <<>>]
    /\ map_pc = "idle"
    /\ map_out = NoFragments

\* one call of map_scenario_to_test_logic
MapScenario ==
    /\ map_pc = "call"
    /\ map_out' = map_scenario_to_test_logic(map_args.workflow, map_args.scenario)
    /\ map_pc' = "done"
    /\ UNCHANGED map_args
    /\ UNCHANGED other_than_map

MapNext == MapScenario

\* tool 1 is not in use
StoryIdle ==
    /\ story_args = [user_story |-> "", workflow |-> ""]
    /\ story_pc = "idle"
    /\ lines = <<>>
    /\ line_no = 1
    /\ current_scenario = <<>>
    /\ scenarios = <<>>
    /\ story_result = PendingResult

----------------------------------------------------------------------------
(* Test synthesizer: utils/code_generator.py lines 173-262                 *)

\* str.capitalize
Capitalize(s) ==
    IF Len(s) = 0 THEN "" ELSE UpperChar(Head(s)) \o Lower(Tail(s))

IsLetter(c) == IsUpperChar(c) \/ IsLowerChar(c)

RECURSIVE TitleFrom(_, _)
\* str.title, prev_letter tells whether the preceding character is a letter
TitleFrom(s, prev_letter) ==
    IF Len(s) = 0 THEN ""
    ELSE (IF prev_letter THEN LowerChar(Head(s)) ELSE UpperChar(Head(s)))
         \o TitleFrom(Tail(s), IsLetter(Head(s)))

Title(s) == TitleFrom(s, FALSE)

\* `if scenario`: None and the empty dict are both falsy
Truthy(d) == DOMAIN d # {}

\* lines 199-208: the docstring of the test function
TestDocstring(test_name, scenario) ==
    LET given == Get(scenario, "given", "")
        when  == Get(scenario, "when", "")
        then  == Get(scenario, "then", "")
        description == Get(scenario, "description", "")
    IN  "\"\"\"\n    " \o (IF description # "" THEN description ELSE test_name) \o "\n\n"
        \o (IF given # "" \/ when # "" \/ then # ""
            THEN "    Scenario:\n"
                 \o (IF given # "" THEN "        Given: " \o given \o "\n" ELSE "")
                 \o (IF when # "" THEN "        When: " \o when \o "\n" ELSE "")
                 \o (IF then # "" THEN "        Then: " \o then \o "\n" ELSE "")
            ELSE "")
        \o "    \"\"\""

\* lines 211-224: the three fragments, from the mapper or the placeholders
TestFragments(workflow, scenario) ==
    LET m == IF Truthy(scenario)
             THEN map_scenario_to_test_logic(workflow, scenario)
             ELSE NoFragments
    IN  << IF m[1] # "" THEN m[1]
           ELSE "# TODO: Add test data for " \o workflow \o " workflow",
           IF m[2] # "" THEN m[2]
           ELSE "# TODO: Implement " \o workflow \o " action\n    # result = "
                \o workflow \o "_tasks.some_action()",
           IF m[3] # "" THEN m[3]
           ELSE "# TODO: Add assertions\n    # assert result is True" >>

\* generate_test_template(test_name, workflow, scenario=None)
generate_test_template(test_name, workflow, scenario) ==
    LET task_class == Capitalize(workflow) \o "Tasks"
        frag == TestFragments(workflow, scenario)
    IN  "\"\"\"\n" \o Capitalize(workflow) \o " Tests - "
        \o Title(Replace(Replace(test_name, "test_", ""), "_", " "))
        \o ".\n\nTest generated from user story scenario.\n\"\"\"\n\n"
        \o "import pytest\nfrom pathlib import Path\nimport sys\n\n"
        \o "# Add framework to path\n"
        \o "FRAMEWORK_PATH = str(Path(__file__).parent.parent.parent / \"framework\")\n"
        \o "sys.path.insert(0, FRAMEWORK_PATH)\n\n"
        \o "from tasks." \o workflow \o "_tasks import " \o task_class \o "\n"
        \o "from resources.utilities import autologger\n\n\n"
        \o "@pytest.mark." \o workflow \o "\n"
        \o "@autologger.automation_logger(\"Test\")\n"
        \o "def " \o test_name \o "(web_interface, config):\n"
        \o "    " \o TestDocstring(test_name, scenario) \o "\n"
        \o "    # Arrange\n"
        \o "    base_url = config[\"url\"]\n"
        \o "    " \o workflow \o "_tasks = " \o task_class \o "(web_interface, base_url)\n\n"
        \o "    " \o frag[1] \o "\n\n"
        \o "    # Act\n"
        \o "    " \o frag[2] \o "\n\n"
        \o "    # Assert\n"
        \o "    " \o frag[3] \o "\n"

\* the parameter list of code_generator.generate_test_template (line 173)
GenerateTestTemplateParams == <<"test_name", "workflow", "scenario">>

----------------------------------------------------------------------------
(* Naming and path resolver: utils/code_generator.py lines 855-883         *)

RECURSIVE SnakeFrom(_, _)
\* re.sub(r'(?<!^)(?=[A-Z])', '_', name): '_' before every uppercase
\* letter that is not the first character
SnakeFrom(s, at_start) ==
    IF Len(s) = 0 THEN ""
    ELSE (IF IsUpperChar(Head(s)) /\ ~at_start THEN "_" ELSE "")
         \o Head(s) \o SnakeFrom(Tail(s), FALSE)

SnakeName(name) == Lower(SnakeFrom(name, TRUE))

\* a mutation of get_file_path_for_component: pages are filed in a
\* directory of their workflow
get_file_path_for_component_by_workflow(component_type, name, workflow) ==
    LET snake_name == SnakeName(name)
    IN  IF component_type = "test"
        THEN "tests/" \o workflow \o "/" \o snake_name \o ".py"
        ELSE IF component_type = "role"
        THEN "framework/roles/" \o snake_name \o ".py"
        ELSE IF component_type = "task"
        THEN "framework/tasks/" \o snake_name \o ".py"
        ELSE IF component_type = "page"
        THEN "framework/pages/" \o workflow \o "/" \o snake_name \o ".py"
        ELSE snake_name \o ".py"

get_file_path_for_component(component_type, name, workflow) ==
    LET snake_name == SnakeName(name)
    IN  IF component_type = "test"
        THEN "tests/" \o workflow \o "/" \o snake_name \o ".py"
        ELSE IF component_type = "role"
        THEN "framework/roles/" \o snake_name \o ".py"
        ELSE IF component_type = "task"
        THEN "framework/tasks/" \o snake_name \o ".py"
        ELSE IF component_type = "page"
        THEN "framework/pages/common/" \o snake_name \o ".py"
        ELSE snake_name \o ".py"

----------------------------------------------------------------------------
(* Tool 6: tools/tool_06_generate_test_template.py                         *)

\* Explored arguments of tool 6.
TestNames == {"", "test_successful_login", "add_to_cart"}

TestWorkflows == {"", "auth", "cart", "payments"}

TestRoles == {"", "GuestUser"}

TestScenarioDicts ==
    { SuccessfulLoginScenario,
      [name |-> "test_add_to_cart", description |-> "Verify add to cart",
       given |-> "user is on product page",
       when |-> "user adds the product to the cart",
       then |-> "the cart counter shows 1"],
      [given |-> "", when |-> "user waits", then |-> "nothing happens"],
      [k \in {} |-> ""] }

\* every key of the arguments dict may be absent
TestArgDicts ==
    { [k \in keys |-> CASE k = "test_name" -> n [] k = "workflow" -> w
                        [] k = "role" -> r [] k = "scenario" -> sc] :
        keys \in SUBSET {"test_name", "workflow", "role", "scenario"},
        n \in TestNames, w \in TestWorkflows, r \in TestRoles,
        sc \in TestScenarioDicts }

EmptyDict == [k \in {} |-> ""]

TestInit ==
    /\ test_args \in TestArgDicts
    /\ test_pc = "call"
    /\ test_result = PendingResult

\* tool 6 is not in use
TestIdle ==
    /\ test_args = EmptyDict
    /\ test_pc = "idle"
    /\ test_result = PendingResult

\* lines 33-36: the arguments with their defaults
TestName == Get(test_args, "test_name", "")

TestWorkflow == Get(test_args, "workflow", "")

TestRole == Get(test_args, "role", "RegisteredUser")

TestScenarioArg == Get(test_args, "scenario", EmptyDict)

\* lines 38-55: the required-field checks
TestRejectArgs ==
    /\ test_pc = "call"
    /\ TestName = "" \/ TestWorkflow = "" \/ TestRole = ""
    /\ test_result' =
         IF TestName = ""
         THEN [status |-> "error", error |-> "test_name is required"]
         ELSE IF TestWorkflow = ""
         THEN [status |-> "error",
               error |-> "workflow is required (auth, catalog, cart, checkout)"]
         ELSE [status |-> "error",
               error |-> "role is required (e.g., RegisteredUser, GuestUser, PayrollManager)"]
    /\ test_pc' = "done"
    /\ UNCHANGED test_args
    /\ UNCHANGED other_than_test

\* lines 57-59: ensure the name starts with 'test_'
PrefixedTestName(test_name) ==
    IF StartsWith(test_name, "test_") THEN test_name ELSE "test_" \o test_name

\* line 64: the positional arguments passed to the synthesizer
GenTestCallArgs(test_name) ==
    <<test_name, TestWorkflow, TestRole, TestScenarioArg>>

\* a call with more positional arguments than parameters raises TypeError
CallRaisesTypeError(params, call_args) == Len(call_args) > Len(params)

\* lines 57-94: generate the code, or report the caught exception
TestGenerate ==
    /\ test_pc = "call"
    /\ TestName # "" /\ TestWorkflow # "" /\ TestRole # ""
    /\ LET test_name == PrefixedTestName(TestName)
           call_args == GenTestCallArgs(test_name)
       IN  test_result' =
             IF CallRaisesTypeError(GenerateTestTemplateParams, call_args)
             THEN [status |-> "error",
                   error |-> "Failed to generate test template: generate_test_template() takes from 2 to 3 positional arguments but "
                             \o ToString(Len(call_args)) \o " were given",
                   traceback |-> "Traceback (most recent call last): ..."]
             ELSE [status |-> "success",
                   test_name |-> test_name,
                   workflow |-> TestWorkflow,
                   role |-> TestRole,
                   file_path |-> get_file_path_for_component("test", test_name, TestWorkflow),
                   code |-> generate_test_template(
                              call_args[1], call_args[2],
                              IF Len(call_args) >= 3 THEN call_args[3] ELSE EmptyDict),
                   architecture |-> "Test -> " \o TestRole \o " -> Task -> Page -> WebInterface",
                   next_steps |-> <<"Save this test code to the suggested file path",
                                    "Ensure " \o TestRole \o " role exists in framework/roles/",
                                    "Ensure supporting Task and Page objects exist",
                                    "Run pytest to execute the test">>]
    /\ test_pc' = "done"
    /\ UNCHANGED test_args
    /\ UNCHANGED other_than_test

TestNext == TestRejectArgs \/ TestGenerate

----------------------------------------------------------------------------
(* Task synthesizer: utils/code_generator.py lines 364-676                 *)

\* line 384: the heading every generate_task_workflows result starts with
WorkflowHeading ==
    "\n"
    \o "    # ==================== WORKFLOW METHODS ====================\n"

\* lines 398-449: the complete login and logout bodies
AuthWorkflowText(page_var, email_method, password_method, submit_method) ==
    "\n"
    \o "    def login(self, email: str, password: str) -> bool:\n"
    \o "        \"\"\"\n"
    \o "        Execute login workflow.\n"
    \o "\n"
    \o "        Complete workflow:\n"
    \o "        1. Navigate to login page\n"
    \o "        2. Enter email and password\n"
    \o "        3. Click submit button\n"
    \o "        4. Verify login success\n"
    \o "\n"
    \o "        Args:\n"
    \o "            email: User email address\n"
    \o "            password: User password\n"
    \o "\n"
    \o "        Returns:\n"
    \o "            True if login successful, False otherwise\n"
    \o "        \"\"\"\n"
    \o "        # Navigate to authentication page\n"
    \o "        self.web.navigate_to(f\"{self.base_url}/index.php?controller=authentication\")\n"
    \o "\n"
    \o "        # Enter credentials\n"
    \o "        self."
    \o page_var
    \o "."
    \o email_method
    \o "(email)\n"
    \o "        self."
    \o page_var
    \o "."
    \o password_method
    \o "(password)\n"
    \o "\n"
    \o "        # Submit login\n"
    \o "        self."
    \o page_var
    \o "."
    \o submit_method
    \o "()\n"
    \o "\n"
    \o "        # Verify login success (check for account menu or logout link)\n"
    \o "        from selenium.webdriver.common.by import By\n"
    \o "        return self.web.is_element_displayed(By.CSS_SELECTOR, \".account, .logout\")\n"
    \o "\n"
    \o "    def logout(self) -> bool:\n"
    \o "        \"\"\"\n"
    \o "        Execute logout workflow.\n"
    \o "\n"
    \o "        Complete workflow:\n"
    \o "        1. Click logout link\n"
    \o "        2. Verify logout success\n"
    \o "\n"
    \o "        Returns:\n"
    \o "            True if logout successful, False otherwise\n"
    \o "        \"\"\"\n"
    \o "        from selenium.webdriver.common.by import By\n"
    \o "\n"
    \o "        # Click logout if visible\n"
    \o "        if self.web.is_element_displayed(By.CSS_SELECTOR, \".logout\"):\n"
    \o "            self.web.click(By.CSS_SELECTOR, \".logout\")\n"
    \o "\n"
    \o "        # Verify logout (login link should be visible)\n"
    \o "        return self.web.is_element_displayed(By.CSS_SELECTOR, \".login\")\n"

\* lines 455-491: the browse_category and get_product_count bodies
CatalogWorkflowText ==
    "\n"
    \o "    def browse_category(self, category_name: str) -> bool:\n"
    \o "        \"\"\"\n"
    \o "        Browse to a specific product category.\n"
    \o "\n"
    \o "        Args:\n"
    \o "            category_name: Name of category to browse\n"
    \o "\n"
    \o "        Returns:\n"
    \o "            True if category page loaded, False otherwise\n"
    \o "        \"\"\"\n"
    \o "        from selenium.webdriver.common.by import By\n"
    \o "\n"
    \o "        # Navigate to homepage\n"
    \o "        self.web.navigate_to(self.base_url)\n"
    \o "\n"
    \o "        # Click category link\n"
    \o "        category_locator = (By.XPATH, f\"//a[contains(text(), '{category_name}')]\")\n"
    \o "        if self.web.is_element_displayed(*category_locator):\n"
    \o "            self.web.click(*category_locator)\n"
    \o "\n"
    \o "            # Verify category page loaded\n"
    \o "            return self.web.is_element_displayed(By.CSS_SELECTOR, \".product-container, .product_list\")\n"
    \o "\n"
    \o "        return False\n"
    \o "\n"
    \o "    def get_product_count(self) -> int:\n"
    \o "        \"\"\"\n"
    \o "        Get count of products displayed on page.\n"
    \o "\n"
    \o "        Returns:\n"
    \o "            Number of products found\n"
    \o "        \"\"\"\n"
    \o "        from selenium.webdriver.common.by import By\n"
    \o "        products = self.web.find_elements(By.CSS_SELECTOR, \".product-container\")\n"
    \o "        return len(products)\n"

\* lines 495-541: the add_to_cart and view_cart bodies
CartWorkflowText ==
    "\n"
    \o "    def add_to_cart(self, product_name: str) -> bool:\n"
    \o "        \"\"\"\n"
    \o "        Add product to shopping cart.\n"
    \o "\n"
    \o "        Args:\n"
    \o "            product_name: Name of product to add\n"
    \o "\n"
    \o "        Returns:\n"
    \o "            True if product added successfully, False otherwise\n"
    \o "        \"\"\"\n"
    \o "        from selenium.webdriver.common.by import By\n"
    \o "\n"
    \o "        # Find and click product\n"
    \o "        product_locator = (By.XPATH, f\"//a[contains(@title, '{product_name}')]\")\n"
    \o "        if self.web.is_element_displayed(*product_locator):\n"
    \o "            self.web.click(*product_locator)\n"
    \o "\n"
    \o "            # Click add to cart button\n"
    \o "            add_to_cart_btn = (By.CSS_SELECTOR, \".add-to-cart, button[name='Submit']\")\n"
    \o "            if self.web.is_element_displayed(*add_to_cart_btn):\n"
    \o "                self.web.click(*add_to_cart_btn)\n"
    \o "\n"
    \o "                # Verify cart confirmation\n"
    \o "                return self.web.is_element_displayed(By.CSS_SELECTOR, \".layer_cart_product, #layer_cart\")\n"
    \o "\n"
    \o "        return False\n"
    \o "\n"
    \o "    def view_cart(self) -> bool:\n"
    \o "        \"\"\"\n"
    \o "        Navigate to shopping cart page.\n"
    \o "\n"
    \o "        Returns:\n"
    \o "            True if cart page loaded, False otherwise\n"
    \o "        \"\"\"\n"
    \o "        from selenium.webdriver.common.by import By\n"
    \o "\n"
    \o "        # Click cart link\n"
    \o "        cart_link = (By.CSS_SELECTOR, \".shopping_cart a, a[title='View my shopping cart']\")\n"
    \o "        if self.web.is_element_displayed(*cart_link):\n"
    \o "            self.web.click(*cart_link)\n"
    \o "\n"
    \o "            # Verify cart page loaded\n"
    \o "            return self.web.is_element_displayed(By.CSS_SELECTOR, \"#cart_summary, .cart_navigation\")\n"
    \o "\n"
    \o "        return False\n"

\* lines 545-560: the generic placeholder workflow
GenericWorkflowText(available_methods) ==
    "\n"
    \o "    def example_workflow(self, param: str) -> bool:\n"
    \o "        \"\"\"\n"
    \o "        Execute example workflow.\n"
    \o "\n"
    \o "        Args:\n"
    \o "            param: Workflow parameter\n"
    \o "\n"
    \o "        Returns:\n"
    \o "            True if workflow successful, False otherwise\n"
    \o "        \"\"\"\n"
    \o "        # TODO: Implement workflow using page object methods\n"
    \o "        # Available methods: "
    \o available_methods
    \o "\n"
    \o "\n"
    \o "        raise NotImplementedError(\"Workflow not yet implemented\")\n"

\* lines 619-643: the placeholder workflow used without page objects
NoPageObjectsWorkflowText ==
    "\n"
    \o "\n"
    \o "    # ==================== WORKFLOW METHODS ====================\n"
    \o "\n"
    \o "    def example_workflow(self, param1: str) -> bool:\n"
    \o "        \"\"\"\n"
    \o "        Execute example workflow.\n"
    \o "\n"
    \o "        Complete workflow: describe the steps here.\n"
    \o "\n"
    \o "        Args:\n"
    \o "            param1: Description of parameter\n"
    \o "\n"
    \o "        Returns:\n"
    \o "            True if workflow successful, False otherwise\n"
    \o "        \"\"\"\n"
    \o "        # TODO: Implement workflow\n"
    \o "        # Example:\n"
    \o "        # self.some_page.perform_action(param1)\n"
    \o "        # return self.some_page.verify_result()\n"
    \o "\n"
    \o "        raise NotImplementedError(\"Workflow not yet implemented\")\n"
    \o "\n"
    \o "    # TODO: Add more workflow methods\n"

\* lines 645-674: the module and class text around the generated parts
TaskClassText(task_name, description, page_imports, page_inits, workflow_methods) ==
    "\"\"\"\n"
    \o task_name
    \o " - Reusable workflow methods.\n"
    \o "\n"
    \o "This module provides high-level task methods that orchestrate page objects\n"
    \o "to accomplish business workflows.\n"
    \o "\n"
    \o description
    \o "\n"
    \o "\"\"\"\n"
    \o "\n"
    \o "from typing import Optional\n"
    \o "from framework.interfaces.web_interface import WebInterface\n"
    \o page_imports
    \o "\n"
    \o "\n"
    \o "\n"
    \o "class "
    \o task_name
    \o ":\n"
    \o "    \"\"\""
    \o task_name
    \o " workflows.\"\"\"\n"
    \o "\n"
    \o "    def __init__(self, web: WebInterface, base_url: str):\n"
    \o "        \"\"\"\n"
    \o "        Initialize "
    \o task_name
    \o ".\n"
    \o "\n"
    \o "        Args:\n"
    \o "            web: WebInterface instance\n"
    \o "            base_url: Application base URL\n"
    \o "        \"\"\"\n"
    \o "        self.web = web\n"
    \o "        self.base_url = base_url\n"
    \o "\n"
    \o page_inits
    \o "\n"
    \o workflow_methods

\* lines 380-381 and 603-604: LoginPage -> login_page
PageVar(page_name) ==
    Replace(LowerChar(Char(page_name, 1)) \o SubSeq(page_name, 2, Len(page_name)),
            "Page", "_page")

\* line 388: a method that enters the email
IsEmailMethod(m) == Contains(m, "email") /\ Contains(m, "enter")

\* line 389: a method that enters the password
IsPasswordMethod(m) == Contains(m, "pass") /\ Contains(m, "enter")

\* line 390: a method that submits the login form
IsSubmitMethod(m) ==
    Contains(m, "submit") /\ Contains(m, "login") /\ Contains(m, "click")

\* position of the first method of a kind, 0 when there is none
FirstEmail(page_methods) ==
    LET hits == {k \in 1..Len(page_methods) : IsEmailMethod(page_methods[k])}
    IN  IF hits = {} THEN 0 ELSE SetMin(hits)

FirstPassword(page_methods) ==
    LET hits == {k \in 1..Len(page_methods) : IsPasswordMethod(page_methods[k])}
    IN  IF hits = {} THEN 0 ELSE SetMin(hits)

FirstSubmit(page_methods) ==
    LET hits == {k \in 1..Len(page_methods) : IsSubmitMethod(page_methods[k])}
    IN  IF hits = {} THEN 0 ELSE SetMin(hits)

\* line 392: the capability test of the auth family
HasLoginCapability(page_methods) ==
    /\ FirstEmail(page_methods) > 0
    /\ FirstPassword(page_methods) > 0
    /\ FirstSubmit(page_methods) > 0

\* line 557: the first five method names, and '...' when there are more
AvailableMethods(page_methods) ==
    Join(SubSeq(page_methods, 1, IF Len(page_methods) < 5 THEN Len(page_methods) ELSE 5), ", ")
    \o (IF Len(page_methods) > 5 THEN "..." ELSE "")

\* generate_task_workflows, page_name non-empty
generate_task_workflows(workflow_type, page_name, page_methods) ==
    WorkflowHeading \o
    (IF workflow_type = "auth"
     THEN IF HasLoginCapability(page_methods)
          THEN AuthWorkflowText(PageVar(page_name),
                                page_methods[FirstEmail(page_methods)],
                                page_methods[FirstPassword(page_methods)],
                                page_methods[FirstSubmit(page_methods)])
          ELSE ""
     ELSE IF workflow_type = "catalog" THEN CatalogWorkflowText
     ELSE IF workflow_type = "cart" THEN CartWorkflowText
     ELSE GenericWorkflowText(AvailableMethods(page_methods)))

\* line 582: the workflow family of a task name
WorkflowFamily(task_name) == Lower(Replace(task_name, "Tasks", ""))

\* line 599: file path to import path
ImportPath(page_file) ==
    Replace(Replace(Replace(page_file, ".py", ""), "/", "."), "\\", ".")

RECURSIVE PageImports(_)
\* lines 591-600: one import line per page object with a name and a file
PageImports(page_objects) ==
    IF Len(page_objects) = 0 THEN ""
    ELSE LET po == Head(page_objects)
         IN  (IF po.name # "" /\ po.file_path # ""
              THEN "from " \o ImportPath(po.file_path) \o " import " \o po.name \o "\n"
              ELSE "")
             \o PageImports(Tail(page_objects))

RECURSIVE PageInits(_)
\* lines 602-606: one attribute per page object with a name and a file
PageInits(page_objects) ==
    IF Len(page_objects) = 0 THEN ""
    ELSE LET po == Head(page_objects)
         IN  (IF po.name # "" /\ po.file_path # ""
              THEN "        self." \o PageVar(po.name) \o " = " \o po.name \o "(web)\n"
              ELSE "")
             \o PageInits(Tail(page_objects))

\* line 380 raises IndexError on an empty page name
TaskTemplateRaises(page_objects) ==
    Len(page_objects) > 0 /\ page_objects[1].name = ""

\* generate_task_template; None and [] are both the empty sequence
generate_task_template(task_name, workflow_description, page_objects) ==
    LET workflow_lower == WorkflowFamily(task_name)
        description == IF workflow_description # "" THEN workflow_description
                       ELSE "TODO: Add workflow description"
    IN  IF Len(page_objects) > 0
        THEN TaskClassText(task_name, description,
                           PageImports(page_objects), PageInits(page_objects),
                           generate_task_workflows(workflow_lower,
                                                   page_objects[1].name,
                                                   page_objects[1].methods))
        ELSE TaskClassText(task_name, description,
                           "# TODO: Import required page objects\n# from pages."
                             \o workflow_lower \o ".some_page import SomePage",
                           "        # TODO: Initialize page objects\n        # self.some_page = SomePage(web)",
                           NoPageObjectsWorkflowText)

\* Explored task synthesizer inputs.
TaskNames ==
    {"AuthTasks", "CatalogTasks", "CartTasks", "CheckoutTasks",
     "AuthTasksE2E", "TasksAuthTasks"}

TaskDescriptions == {"", "Authentication workflows (login, logout)"}

MethodNames ==
    <<"enter_email", "enter_passwd", "click_submitlogin", "click_login",
      "enter_email_address">>

\* method lists of up to MaxMethods names, and one list of six names
MethodLists ==
    {<<>>}
    \cup UNION {{[k \in 1..n |-> MethodNames[f[k]]] :
                   f \in [1..n -> 1..Len(MethodNames)]} : n \in 1..MaxMethods}
    \cup {<<"click_a", "click_b", "click_c", "click_d", "click_e", "click_f">>}

PageObject(name, file_path, methods) ==
    [name |-> name, file_path |-> file_path, methods |-> methods]

PageObjectLists ==
    {<<>>}
    \cup {<<PageObject("LoginPage", "pages/auth/loginpage.py", ms)>> : ms \in MethodLists}
    \cup {<<PageObject("LoginPage", "pages/auth/loginpage.py", ms),
            PageObject("HomePage", "pages\\common\\homepage.py", <<"click_logout">>)>> :
            ms \in MethodLists}
    \cup {<<PageObject("LoginPage", "", <<"enter_email">>)>>,
          <<PageObject("", "pages/auth/loginpage.py", <<>>)>>}

TaskInit ==
    /\ task_args \in [task_name : TaskNames,
                      workflow_description : TaskDescriptions,
                      page_objects : PageObjectLists]
    /\ task_pc = "call"
    /\ task_code = ""

\* the task synthesizer is not in use
TaskIdle ==
    /\ task_args = [task_name |-> "", workflow_description |-> "",
                    page_objects |-> <<>>]
    /\ task_pc = "idle"
    /\ task_code = ""

\* one call of generate_task_template that returns
TaskGenerate ==
    /\ task_pc = "call"
    /\ ~TaskTemplateRaises(task_args.page_objects)
    /\ task_code' = generate_task_template(task_args.task_name,
                                           task_args.workflow_description,
                                           task_args.page_objects)
    /\ task_pc' = "done"
    /\ UNCHANGED task_args
    /\ UNCHANGED other_than_task

\* one call of generate_task_template that raises IndexError
TaskRaise ==
    /\ task_pc = "call"
    /\ TaskTemplateRaises(task_args.page_objects)
    /\ task_pc' = "raised"
    /\ UNCHANGED <<task_args, task_code>>
    /\ UNCHANGED other_than_task

TaskNext == TaskGenerate \/ TaskRaise

----------------------------------------------------------------------------
(* Tool 4: tools/tool_04_generate_task.py                                  *)

RECURSIVE NameRunEnd(_, _)
\* the end (exclusive) of the longest run of [a-z_] of s that starts at k
NameRunEnd(s, k) ==
    IF k <= Len(s) /\ (IsLowerChar(Char(s, k)) \/ Char(s, k) = "_")
    THEN NameRunEnd(s, k + 1)
    ELSE k

\* the match of r'def\s+([a-z_]+)\(self' that starts at position k:
\* <<group 1>>, or <<>> when the pattern does not match there.  \s+ and
\* [a-z_]+ are greedy and what follows each can not be in its class, so
\* each takes its longest run.
DefMatchAt(s, k) ==
    LET a == SkipSpaces(s, k + 3)
        b == NameRunEnd(s, a)
    IN  IF /\ k + 2 <= Len(s)
           /\ SubSeq(s, k, k + 2) = "def"
           /\ a > k + 3
           /\ b > a
           /\ b + 4 <= Len(s)
           /\ SubSeq(s, b, b + 4) = "(self"
        THEN <<SubSeq(s, a, b - 1)>>
        ELSE <<>>

RECURSIVE MatchesInOrder(_, _)
\* group 1 of the matches that start at the positions ks, left to right
MatchesInOrder(s, ks) ==
    IF ks = {} THEN <<>>
    ELSE DefMatchAt(s, SetMin(ks)) \o MatchesInOrder(s, ks \ {SetMin(ks)})

\* re.findall(pattern, pom_code): a match can not begin inside another
\* match of this pattern, so the non-overlapping scan finds every position
\* where the pattern matches
FindAllDefs(pom_code) ==
    MatchesInOrder(pom_code,
                   {k \in 1..Len(pom_code) : DefMatchAt(pom_code, k) # <<>>})

\* extract_method_names_from_pom: the matches that do not start with '__'
extract_method_names_from_pom(pom_code) ==
    SelectSeq(FindAllDefs(pom_code), LAMBDA m : ~StartsWith(m, "__"))

\* Explored arguments of tool 4.
Tool4TaskNames == {"", "AuthTasks", "CheckoutTasks", "CartTasks"}

Tool4Descriptions == {"", "Authentication workflows"}

LoginPomCode ==
    "class LoginPage(BasePage):\n\n"
    \o "    def __init__(self, web: WebInterface):\n"
    \o "        super().__init__(web)\n\n"
    \o "    def enter_email(self, text: str) -> None:\n"
    \o "        self.web.type_text(*self.EMAIL, text)\n\n"
    \o "    def enter_passwd(self, text: str) -> None:\n"
    \o "        self.web.type_text(*self.PASSWD, text)\n\n"
    \o "    def click_submitlogin(self) -> None:\n"
    \o "        self.web.click(*self.SUBMITLOGIN)\n"

EmailOnlyPomCode ==
    "class LoginPage(BasePage):\n\n"
    \o "    def enter_email(self, text: str) -> None:\n"
    \o "        self.web.type_text(*self.EMAIL, text)\n\n"
    \o "    def enter_address1(self, text: str) -> None:\n"
    \o "        self.web.type_text(*self.ADDRESS1, text)\n"

PomCodes == {"", LoginPomCode, EmailOnlyPomCode}

\* a page-object entry of the input list: a dict, any key of which may be
\* absent or empty, or a JSON value that is not a dict (here a string)
PageObjectInputs ==
    {[name |-> "LoginPage", file_path |-> "framework/pages/auth/login_page.py",
      code |-> c] : c \in PomCodes}
    \cup {[name |-> "LoginPage", file_path |-> "framework/pages/auth/login_page.py"],
          [name |-> "LoginPage", code |-> LoginPomCode],
          [name |-> "", file_path |-> "framework/pages/auth/login_page.py",
           code |-> LoginPomCode],
          [json_string |-> "LoginPage"]}

HomePageInput ==
    [name |-> "HomePage", file_path |-> "framework/pages/common/home_page.py",
     code |-> "    def click_logout(self) -> None:\n"]

PageObjectInputLists ==
    {<<>>}
    \cup {<<po>> : po \in PageObjectInputs}
    \cup {<<po, HomePageInput>> : po \in PageObjectInputs}

\* every key of the arguments dict may be absent
Tool4ArgDicts ==
    { [k \in keys |-> CASE k = "task_name" -> n
                        [] k = "workflow_description" -> d
                        [] k = "page_objects" -> pos] :
        keys \in SUBSET {"task_name", "workflow_description", "page_objects"},
        n \in Tool4TaskNames, d \in Tool4Descriptions,
        pos \in PageObjectInputLists }

Tool4Init ==
    /\ tool4_args \in Tool4ArgDicts
    /\ tool4_pc = "call"
    /\ tool4_result = PendingResult

\* tool 4 is not in use
Tool4Idle ==
    /\ tool4_args = EmptyDict
    /\ tool4_pc = "idle"
    /\ tool4_result = PendingResult

\* lines 55-57: the arguments with their defaults
Tool4TaskName == Get(tool4_args, "task_name", "")

Tool4Description == Get(tool4_args, "workflow_description", "")

page_objects_input == Get(tool4_args, "page_objects", <<>>)

\* an entry of the input list on which .get can be called
IsDict(page_obj) == "json_string" \notin DOMAIN page_obj

\* lines 69-72 raise AttributeError on the first entry that is not a dict
Tool4Raises ==
    \E k \in 1..Len(page_objects_input) : ~IsDict(page_objects_input[k])

RECURSIVE TransformPageObjects(_)
\* lines 67-82: the entries with a name and a file path, with the method
\* names read out of their code
TransformPageObjects(input) ==
    IF Len(input) = 0 THEN <<>>
    ELSE LET page_obj  == Head(input)
             page_name == Get(page_obj, "name", "")
             page_file == Get(page_obj, "file_path", "")
             page_code == Get(page_obj, "code", "")
         IN  (IF page_name # "" /\ page_file # ""
              THEN <<[name |-> page_name, file_path |-> page_file,
                      methods |-> extract_method_names_from_pom(page_code)]>>
              ELSE <<>>)
             \o TransformPageObjects(Tail(input))

\* lines 59-63: the required-field check
Tool4RejectArgs ==
    /\ tool4_pc = "call"
    /\ Tool4TaskName = ""
    /\ tool4_result' = [error |-> "task_name is required", status |-> "error"]
    /\ tool4_pc' = "done"
    /\ UNCHANGED tool4_args
    /\ UNCHANGED other_than_tool4

\* lines 65-109: transform the page objects, synthesize, build the envelope
Tool4Generate ==
    /\ tool4_pc = "call"
    /\ Tool4TaskName # ""
    /\ ~Tool4Raises
    /\ LET page_objects == TransformPageObjects(page_objects_input)
       IN  tool4_result' =
             [status |-> "success",
              task_name |-> Tool4TaskName,
              file_path |-> get_file_path_for_component("task", Tool4TaskName, ""),
              code |-> generate_task_template(Tool4TaskName, Tool4Description,
                                              page_objects),
              page_objects_used |-> Len(page_objects),
              workflows_generated |->
                  IF Len(page_objects) > 0 THEN "COMPLETE" ELSE "PLACEHOLDER",
              next_steps |-> <<"Save task code to suggested file path",
                               "Import task in role classes",
                               "Use task methods in tests",
                               "Verify workflows execute correctly">>]
    /\ tool4_pc' = "done"
    /\ UNCHANGED tool4_args
    /\ UNCHANGED other_than_tool4

\* lines 111-117: the caught exception becomes an error envelope
Tool4Fail ==
    /\ tool4_pc = "call"
    /\ Tool4TaskName # ""
    /\ Tool4Raises
    /\ tool4_result' =
         [error |-> "Failed to generate task: 'str' object has no attribute 'get'",
          status |-> "error",
          traceback |-> "Traceback (most recent call last): ..."]
    /\ tool4_pc' = "done"
    /\ UNCHANGED tool4_args
    /\ UNCHANGED other_than_tool4

Tool4Next == Tool4RejectArgs \/ Tool4Generate \/ Tool4Fail

----------------------------------------------------------------------------
(* Page-object synthesizer: utils/code_generator.py lines 679-853          *)

RECURSIVE Upper(_)
\* str.upper
Upper(s) == IF Len(s) = 0 THEN "" ELSE UpperChar(Head(s)) \o Upper(Tail(s))

\* line 693: the heading of the methods section
PomHeading ==
    "\n"
    \o "    # ==================== INTERACTION METHODS ====================\n"

\* lines 707-716: the method of an element of type 'inputs'
InputMethodText(method_name, name) ==
    "\n"
    \o "    def "
    \o method_name
    \o "(self, text: str) -> None:\n"
    \o "        \"\"\"\n"
    \o "        Enter text into "
    \o name
    \o " field.\n"
    \o "\n"
    \o "        Args:\n"
    \o "            text: Text to enter\n"
    \o "        \"\"\"\n"
    \o "        self.web.type_text(*self."
    \o name
    \o ", text)\n"

\* lines 721-725: the method of an element of type 'buttons'
ButtonMethodText(method_name, name) ==
    "\n"
    \o "    def "
    \o method_name
    \o "(self) -> None:\n"
    \o "        \"\"\"Click "
    \o name
    \o " button.\"\"\"\n"
    \o "        self.web.click(*self."
    \o name
    \o ")\n"

\* lines 730-734: the method of an element of type 'links'
LinkMethodText(method_name, name) ==
    "\n"
    \o "    def "
    \o method_name
    \o "(self) -> None:\n"
    \o "        \"\"\"Click "
    \o name
    \o " link.\"\"\"\n"
    \o "        self.web.click(*self."
    \o name
    \o ")\n"

\* lines 739-748: the method of an element of type 'selects'
SelectMethodText(method_name, name) ==
    "\n"
    \o "    def "
    \o method_name
    \o "(self, value: str) -> None:\n"
    \o "        \"\"\"\n"
    \o "        Select option from "
    \o name
    \o " dropdown.\n"
    \o "\n"
    \o "        Args:\n"
    \o "            value: Option value to select\n"
    \o "        \"\"\"\n"
    \o "        self.web.select_dropdown_by_value(*self."
    \o name
    \o ", option_value=value)\n"

\* lines 754-764: the two methods of an element of type 'checkboxes'
CheckboxMethodText(check_method, uncheck_method, name) ==
    "\n"
    \o "    def "
    \o check_method
    \o "(self) -> None:\n"
    \o "        \"\"\"Check "
    \o name
    \o " checkbox.\"\"\"\n"
    \o "        if not self.web.is_element_selected(*self."
    \o name
    \o "):\n"
    \o "            self.web.click(*self."
    \o name
    \o ")\n"
    \o "\n"
    \o "    def "
    \o uncheck_method
    \o "(self) -> None:\n"
    \o "        \"\"\"Uncheck "
    \o name
    \o " checkbox.\"\"\"\n"
    \o "        if self.web.is_element_selected(*self."
    \o name
    \o "):\n"
    \o "            self.web.click(*self."
    \o name
    \o ")\n"

\* lines 801-826: the module and class text around the generated parts
PageClassText(page_name, locators, methods) ==
    "from selenium.webdriver.common.by import By\n"
    \o "from framework.pages.base_page import BasePage\n"
    \o "from framework.interfaces.web_interface import WebInterface\n"
    \o "\n"
    \o "\n"
    \o "class "
    \o page_name
    \o "(BasePage):\n"
    \o "    \"\"\"\n"
    \o "    "
    \o page_name
    \o " - Page Object Model\n"
    \o "\n"
    \o "    Represents the page and provides methods for interaction.\n"
    \o "    \"\"\"\n"
    \o "\n"
    \o "    def __init__(self, web: WebInterface):\n"
    \o "        \"\"\"\n"
    \o "        Initialize "
    \o page_name
    \o ".\n"
    \o "\n"
    \o "        Args:\n"
    \o "            web: WebInterface instance\n"
    \o "        \"\"\"\n"
    \o "        super().__init__(web)\n"
    \o "\n"
    \o "    # ==================== LOCATORS ====================\n"
    \o "\n"
    \o locators
    \o "\n"
    \o methods
    \o "\n"

\* line 697: the upper-cased suggested_name, or name when that is empty
PomElementName(elem) ==
    LET suggested == Get(elem, "suggested_name", "")
    IN  Upper(IF suggested # "" THEN suggested ELSE Get(elem, "name", ""))

\* a mutation of PomMethodNames: a checkbox gets no uncheck method
PomMethodNamesCheckOnly(elem) ==
    LET name      == PomElementName(elem)
        elem_type == Get(elem, "element_type", "")
    IN  IF name = "" \/ elem_type = "" THEN <<>>
        ELSE IF elem_type = "inputs" THEN <<"enter_" \o Lower(name)>>
        ELSE IF elem_type = "buttons" THEN <<"click_" \o Lower(name)>>
        ELSE IF elem_type = "links" THEN <<"click_" \o Lower(name)>>
        ELSE IF elem_type = "selects" THEN <<"select_" \o Lower(name)>>
        ELSE IF elem_type = "checkboxes"
        THEN <<"check_" \o Lower(name), "check_" \o Lower(name)>>
        ELSE <<>>

\* lines 700-753: the names of the methods generated for one element
PomMethodNames(elem) ==
    LET name      == PomElementName(elem)
        elem_type == Get(elem, "element_type", "")
    IN  IF name = "" \/ elem_type = "" THEN <<>>
        ELSE IF elem_type = "inputs" THEN <<"enter_" \o Lower(name)>>
        ELSE IF elem_type = "buttons" THEN <<"click_" \o Lower(name)>>
        ELSE IF elem_type = "links" THEN <<"click_" \o Lower(name)>>
        ELSE IF elem_type = "selects" THEN <<"select_" \o Lower(name)>>
        ELSE IF elem_type = "checkboxes"
        THEN <<"check_" \o Lower(name), "uncheck_" \o Lower(name)>>
        ELSE <<>>

\* lines 700-764: the text appended for one element
PomMethodText(elem) ==
    LET name      == PomElementName(elem)
        elem_type == Get(elem, "element_type", "")
        names     == PomMethodNames(elem)
    IN  IF name = "" \/ elem_type = "" THEN ""
        ELSE IF elem_type = "inputs" THEN InputMethodText(names[1], name)
        ELSE IF elem_type = "buttons" THEN ButtonMethodText(names[1], name)
        ELSE IF elem_type = "links" THEN LinkMethodText(names[1], name)
        ELSE IF elem_type = "selects" THEN SelectMethodText(names[1], name)
        ELSE IF elem_type = "checkboxes"
        THEN CheckboxMethodText(names[1], names[2], name)
        ELSE ""

RECURSIVE PomMethodTexts(_)
\* lines 695-764: the loop over the elements
PomMethodTexts(elements) ==
    IF Len(elements) = 0 THEN ""
    ELSE PomMethodText(Head(elements)) \o PomMethodTexts(Tail(elements))

generate_pom_methods(elements) ==
    IF Len(elements) = 0 THEN ""
    ELSE PomHeading \o PomMethodTexts(elements)

\* _determine_by_type
_determine_by_type(locator) ==
    LET stripped == Strip(locator)
    IN  IF StartsWith(stripped, "#") /\ ~Contains(stripped, " ")
        THEN "CSS_SELECTOR"
        ELSE IF StartsWith(stripped, "//") \/ StartsWith(stripped, "(//")
        THEN "XPATH"
        ELSE "CSS_SELECTOR"

\* lines 788-793: the declaration of one element, "" when it has no
\* locator or no name
LocatorDeclaration(elem) ==
    LET locator == Get(elem, "locator", "")
        name    == Upper(Get(elem, "name", ""))
    IN  IF locator # "" /\ name # ""
        THEN "    " \o name \o " = (By." \o _determine_by_type(locator)
             \o ", \"" \o locator \o "\")\n"
        ELSE ""

RECURSIVE LocatorDeclarations(_)
\* lines 786-793: the loop over the elements
LocatorDeclarations(elements) ==
    IF Len(elements) = 0 THEN ""
    ELSE LocatorDeclaration(Head(elements))
         \o LocatorDeclarations(Tail(elements))

\* a mutation of generate_page_object_template: the class name carries
\* the number of synthesizer calls made so far
generate_page_object_template_numbered(page_name, elements) ==
    LET declared == LocatorDeclarations(elements)
        locators == IF declared = "" THEN "    # TODO: Add locators\n"
                    ELSE declared
        methods  == IF Len(elements) > 0 THEN generate_pom_methods(elements)
                    ELSE ""
    IN  PageClassText(page_name \o ToString(pom_calls), locators, methods)

\* generate_page_object_template; None and [] are both the empty sequence
generate_page_object_template(page_name, elements) ==
    LET declared == LocatorDeclarations(elements)
        locators == IF declared = "" THEN "    # TODO: Add locators\n"
                    ELSE declared
        methods  == IF Len(elements) > 0 THEN generate_pom_methods(elements)
                    ELSE ""
    IN  PageClassText(page_name, locators, methods)

----------------------------------------------------------------------------
(* Element discoverer: utils/element_discovery.py                          *)

\* line 178: the longest suggested name
MaxNameLen == 40

\* line 233: the longest text used in a text locator
MaxTextLen == 20

\* lines 20-29: the categories, in the insertion order of the dict
ElementTypes ==
    <<"buttons", "links", "inputs", "checkboxes", "radios", "selects",
      "textareas", "images">>

RECURSIVE KeepNameChars(_)
\* line 174: the characters that are alphanumeric or '_'
KeepNameChars(s) ==
    IF Len(s) = 0 THEN ""
    ELSE (IF IsWordChar(Head(s)) THEN Head(s) ELSE "") \o KeepNameChars(Tail(s))

\* line 169: the first non-empty of id, name, text, placeholder, and
\* '{element_type}_{index}'
NameSource(element_type, element_id, element_name, element_text, placeholder, index) ==
    IF element_id # "" THEN element_id
    ELSE IF element_name # "" THEN element_name
    ELSE IF element_text # "" THEN element_text
    ELSE IF placeholder # "" THEN placeholder
    ELSE element_type \o "_" \o ToString(index)

\* lines 172-175: strip, replace, filter and upper-case
CleanName(name_source) ==
    Upper(KeepNameChars(
        Replace(Replace(Replace(Strip(name_source), "-", "_"), " ", "_"), ".", "_")))

\* a mutation of TruncateName: the name is never cut
TruncateNameNever(name) == name

\* lines 178-179: at most MaxNameLen characters
TruncateName(name) ==
    IF Len(name) > MaxNameLen THEN SubSeq(name, 1, MaxNameLen) ELSE name

_generate_element_name(element_type, element_id, element_name, element_text, placeholder, index) ==
    TruncateName(CleanName(NameSource(element_type, element_id, element_name,
                                      element_text, placeholder, index)))

\* str.split(): the whitespace-separated words
SplitWords(s) ==
    LET starts == {k \in 1..Len(s) :
                     ~IsSpace(Char(s, k)) /\ (k = 1 \/ IsSpace(Char(s, k - 1)))}
        EndOf(k) == SetMin({j \in k..Len(s) : j = Len(s) \/ IsSpace(Char(s, j + 1))})
        RECURSIVE Words(_)
        Words(ks) == IF ks = {} THEN <<>>
                     ELSE <<SubSeq(s, SetMin(ks), EndOf(SetMin(ks)))>>
                          \o Words(ks \ {SetMin(ks)})
    IN  Words(starts)

\* line 221 raises IndexError: the class branch is taken and the class
\* attribute holds no word
GenerateLocatorsRaises(element_id, element_class, element_name) ==
    /\ element_id = ""
    /\ element_name = ""
    /\ element_class # ""
    /\ SplitWords(element_class) = <<>>

\* _generate_locators when it returns: a dict with keys among id, css and
\* xpath
_generate_locators(tag_name, element_id, element_class, element_name, element_text, element_type) ==
    IF element_id # ""
    THEN [id    |-> "#" \o element_id,
          xpath |-> "//" \o tag_name \o "[@id='" \o element_id \o "']"]
    ELSE IF element_name # ""
    THEN [css   |-> tag_name \o "[name='" \o element_name \o "']",
          xpath |-> "//" \o tag_name \o "[@name='" \o element_name \o "']"]
    ELSE IF element_class # ""
    THEN LET first_class == SplitWords(element_class)[1]
         IN  [css   |-> tag_name \o "." \o first_class,
              xpath |-> "//" \o tag_name \o "[contains(@class, '"
                        \o first_class \o "')]"]
    ELSE IF element_type # ""
    THEN [css   |-> tag_name \o "[type='" \o element_type \o "']",
          xpath |-> "//" \o tag_name \o "[@type='" \o element_type \o "']"]
    ELSE IF element_text # ""
    THEN [xpath |-> "//" \o tag_name \o "[contains(text(), '"
                    \o SubSeq(element_text, 1,
                              IF Len(element_text) < MaxTextLen
                              THEN Len(element_text) ELSE MaxTextLen)
                    \o "')]"]
    ELSE [css   |-> tag_name,
          xpath |-> "//" \o tag_name]

\* line 98: the stripped text, else the value attribute
ElementText(node) ==
    IF Strip(node.text) # "" THEN Strip(node.text) ELSE node.value

\* lines 90-122 raise: the element is stale (every access raises), or
\* _generate_locators raises
ExtractRaises(node) ==
    \/ node.stale
    \/ GenerateLocatorsRaises(node.id, node.class, node.name)

\* lines 124-140: the dict of a displayed element whose extraction does
\* not raise
ElementData(node, element_type, index) ==
    LET element_text == ElementText(node)
        locators == _generate_locators(node.tag_name, node.id, node.class,
                                       node.name, element_text, node.type)
    IN  [suggested_name |-> _generate_element_name(element_type, node.id, node.name,
                                                   element_text, node.placeholder,
                                                   index),
         element_type   |-> element_type,
         tag_name       |-> node.tag_name,
         type_attr      |-> node.type,
         id             |-> node.id,
         class          |-> node.class,
         name           |-> node.name,
         text           |-> element_text,
         placeholder    |-> node.placeholder,
         href           |-> node.href,
         src            |-> node.src,
         locator_id     |-> Get(locators, "id", ""),
         locator_css    |-> Get(locators, "css", ""),
         locator_xpath  |-> Get(locators, "xpath", ""),
         visible        |-> "Yes"]

\* _extract_element_data: <<>> for None
_extract_element_data(node, element_type, index) ==
    IF ExtractRaises(node) \/ ~node.displayed THEN <<>>
    ELSE <<ElementData(node, element_type, index)>>

\* a web element as the driver reports it; an absent attribute is ""
Node(tag_name, id, class, name, text, value, placeholder, type, displayed, stale) ==
    [tag_name |-> tag_name, id |-> id, class |-> class, name |-> name,
     text |-> text, value |-> value, placeholder |-> placeholder,
     type |-> type, href |-> "", src |-> "",
     displayed |-> displayed, stale |-> stale]

\* Explored attribute values.
LongId == "customer-registration-form-email-address-input"

LongText == " Terms & conditions: read (and accept) them! "

NodeIds == {"", "email", LongId}

NodeClasses == {"", "btn primary", "  "}

NodeNames == {"", "user.email"}

NodeTexts == {"", " Sign in ", LongText}

NodeValues == {"", "Submit"}

NodePlaceholders == {"", "Your e-mail address (for example: jane.doe@example.com)"}

NodeTypes == {"", "text"}

NodeTags == {"input", "a"}

ExtractNodes ==
    {Node(tag, id, class, name, text, value, placeholder, type, displayed, stale) :
        tag \in NodeTags, id \in NodeIds, class \in NodeClasses, name \in NodeNames,
        text \in NodeTexts, value \in NodeValues,
        placeholder \in NodePlaceholders, type \in NodeTypes,
        displayed \in BOOLEAN, stale \in BOOLEAN}

NoNode == Node("", "", "", "", "", "", "", "", FALSE, FALSE)

ExtractInit ==
    /\ ex_node \in ExtractNodes
    /\ ex_type \in {"inputs", "buttons"}
    /\ ex_index \in {0, 12}
    /\ ex_pc = "call"
    /\ ex_out = <<>>

\* _extract_element_data is not in use
ExtractIdle ==
    /\ ex_node = NoNode
    /\ ex_type = ""
    /\ ex_index = 0
    /\ ex_pc = "idle"
    /\ ex_out = <<>>

\* lines 90-91: a hidden element is skipped
ExtractHidden ==
    /\ ex_pc = "call"
    /\ ~ex_node.stale /\ ~ex_node.displayed
    /\ ex_out' = _extract_element_data(ex_node, ex_type, ex_index)
    /\ ex_pc' = "done"
    /\ UNCHANGED <<ex_node, ex_type, ex_index>>
    /\ UNCHANGED other_than_extract

\* lines 142-143: an exception raised during the extraction is caught
ExtractCaught ==
    /\ ex_pc = "call"
    /\ ExtractRaises(ex_node) /\ (ex_node.stale \/ ex_node.displayed)
    /\ ex_out' = _extract_element_data(ex_node, ex_type, ex_index)
    /\ ex_pc' = "done"
    /\ UNCHANGED <<ex_node, ex_type, ex_index>>
    /\ UNCHANGED other_than_extract

\* lines 93-140: the data of a displayed element
ExtractData ==
    /\ ex_pc = "call"
    /\ ~ExtractRaises(ex_node) /\ ex_node.displayed
    /\ ex_out' = _extract_element_data(ex_node, ex_type, ex_index)
    /\ ex_pc' = "done"
    /\ UNCHANGED <<ex_node, ex_type, ex_index>>
    /\ UNCHANGED other_than_extract

ExtractNext == ExtractHidden \/ ExtractCaught \/ ExtractData

----------------------------------------------------------------------------
(* Tool 3: tools/tool_03_generate_page_object.py                           *)

\* the longest explored element list
MaxElems == 2

\* Explored elements: what the discoverer returns for some web elements,
\* and entries written by hand.
DiscoveredElements ==
    { ElementData(Node("input", "email", "form-control", "user.email", "", "",
                       "Email", "text", TRUE, FALSE), "inputs", 0),
      ElementData(Node("input", "", "", "passwd", "", "", "", "password",
                       TRUE, FALSE), "inputs", 1),
      ElementData(Node("input", "address1", "", "", "", "", "", "text",
                       TRUE, FALSE), "inputs", 2),
      ElementData(Node("button", "SubmitLogin", "btn", "submit", " Sign in ", "",
                       "", "submit", TRUE, FALSE), "buttons", 0),
      ElementData(Node("a", "", "", "", " Forgot your password? ", "", "", "",
                       TRUE, FALSE), "links", 0),
      ElementData(Node("input", "remember-me", "", "", "", "on", "", "checkbox",
                       TRUE, FALSE), "checkboxes", 0),
      ElementData(Node("select", "", "", "country", "", "", "", "",
                       TRUE, FALSE), "selects", 0),
      ElementData(Node("img", "", "logo", "", "", "", "", "",
                       TRUE, FALSE), "images", 0),
      ElementData(Node("input", "$", "", "q", "", "", "", "radio",
                       TRUE, FALSE), "radios", 0) }

HandWrittenElements ==
    { [suggested_name |-> "EMAIL_CREATE", locator_id |-> "#email_create",
       locator_css |-> "", locator_xpath |-> "//input[@id='email_create']"],
      [suggested_name |-> "email", element_type |-> "inputs",
       locator_xpath |-> "(//input)[1]"],
      [suggested_name |-> "NOWHERE", element_type |-> "buttons"],
      [json_string |-> "EMAIL"] }

Tool3Elements == DiscoveredElements \cup HandWrittenElements

Tool3ElementLists ==
    UNION {[1..n -> Tool3Elements] : n \in 0..MaxElems}

\* every key of the arguments dict may be absent
Tool3ArgDicts ==
    { [k \in keys |-> CASE k = "page_name" -> p
                        [] k = "elements" -> es
                        [] k = "workflow" -> w] :
        keys \in SUBSET {"page_name", "elements", "workflow"},
        p \in {"", "LoginPage"}, es \in Tool3ElementLists, w \in {"auth"} }

Tool3Init ==
    /\ tool3_args \in Tool3ArgDicts
    /\ tool3_pc = "call"
    /\ tool3_result = PendingResult

\* tool 3 is not in use
Tool3Idle ==
    /\ tool3_args = EmptyDict
    /\ tool3_pc = "idle"
    /\ tool3_result = PendingResult

\* lines 31-33: the arguments with their defaults
Tool3PageName == Get(tool3_args, "page_name", "")

Tool3ElementsArg == Get(tool3_args, "elements", <<>>)

Tool3Workflow == Get(tool3_args, "workflow", "")

\* line 55 raises AttributeError on the first entry that is not a dict
Tool3Raises ==
    \E k \in 1..Len(Tool3ElementsArg) : ~IsDict(Tool3ElementsArg[k])

\* a mutation of ChooseLocator: the xpath candidate is preferred
ChooseLocatorXpathFirst(elem) ==
    IF Get(elem, "locator_xpath", "") # "" THEN elem.locator_xpath
    ELSE IF Get(elem, "locator_id", "") # "" THEN elem.locator_id
    ELSE Get(elem, "locator_css", "")

\* line 55: the id candidate, else the css one, else the xpath one
ChooseLocator(elem) ==
    IF Get(elem, "locator_id", "") # "" THEN elem.locator_id
    ELSE IF Get(elem, "locator_css", "") # "" THEN elem.locator_css
    ELSE Get(elem, "locator_xpath", "")

RECURSIVE TransformElements(_)
\* lines 51-64: the elements with a locator and a name
TransformElements(elements) ==
    IF Len(elements) = 0 THEN <<>>
    ELSE LET elem    == Head(elements)
             locator == ChooseLocator(elem)
             name    == Get(elem, "suggested_name", "")
         IN  (IF locator # "" /\ name # ""
              THEN <<[name |-> name, locator |-> locator,
                      element_type |-> Get(elem, "element_type", "")]>>
              ELSE <<>>)
             \o TransformElements(Tail(elements))

\* lines 35-45: the required-field checks
Tool3RejectArgs ==
    /\ tool3_pc = "call"
    /\ Tool3PageName = "" \/ Len(Tool3ElementsArg) = 0
    /\ tool3_result' =
         IF Tool3PageName = ""
         THEN [error |-> "page_name is required", status |-> "error"]
         ELSE [error |-> "elements list is required (use Tool 5 to discover elements)",
               status |-> "error"]
    /\ tool3_pc' = "done"
    /\ UNCHANGED tool3_args
    /\ UNCHANGED other_than_tool3

\* lines 47-86: transform the elements, synthesize, build the envelope
Tool3Generate ==
    /\ tool3_pc = "call"
    /\ Tool3PageName # "" /\ Len(Tool3ElementsArg) > 0
    /\ ~Tool3Raises
    /\ LET transformed_elements == TransformElements(Tool3ElementsArg)
       IN  tool3_result' =
             [status |-> "success",
              page_name |-> Tool3PageName,
              file_path |-> get_file_path_for_component("page", Tool3PageName,
                                                        Tool3Workflow),
              elements_count |-> Len(transformed_elements),
              code |-> generate_page_object_template(Tool3PageName,
                                                     transformed_elements),
              next_steps |-> <<"Save POM code to suggested file path",
                               "Import POM in task methods",
                               "Use POM methods in task workflows",
                               "Write tests that use task methods">>]
    /\ tool3_pc' = "done"
    /\ UNCHANGED tool3_args
    /\ UNCHANGED other_than_tool3

\* lines 88-94: the caught exception becomes an error envelope
Tool3Fail ==
    /\ tool3_pc = "call"
    /\ Tool3PageName # "" /\ Len(Tool3ElementsArg) > 0
    /\ Tool3Raises
    /\ tool3_result' =
         [error |-> "Failed to generate POM: 'str' object has no attribute 'get'",
          status |-> "error",
          traceback |-> "Traceback (most recent call last): ..."]
    /\ tool3_pc' = "done"
    /\ UNCHANGED tool3_args
    /\ UNCHANGED other_than_tool3

Tool3Next == Tool3RejectArgs \/ Tool3Generate \/ Tool3Fail

----------------------------------------------------------------------------
(* Two calls of the page-object synthesizer with other synthesizer calls   *)
(* in between: utils/code_generator.py.  The module keeps no state between *)
(* calls; every call reads its arguments only.                             *)

\* the most synthesizer calls made between the two calls
MaxBetween == 2

\* the three methods of a login page
LoginMethods == <<"enter_email", "enter_passwd", "click_submitlogin">>

\* Explored arguments of the page-object synthesizer.
PomElements ==
    { [name |-> "EMAIL", locator |-> "#email", element_type |-> "inputs"],
      [name |-> "SubmitLogin", locator |-> "//button[@id='SubmitLogin']",
       element_type |-> "buttons"],
      [name |-> "REMEMBER_ME", locator |-> "input[name='remember']",
       element_type |-> "checkboxes"],
      [name |-> "LOGO", locator |-> ""] }

PomElementLists == UNION {[1..n -> PomElements] : n \in 0..MaxElems}

PomArgs == [page_name : {"LoginPage", "HomePage"}, elements : PomElementLists]

PomInit ==
    /\ pom_args \in PomArgs
    /\ pom_pc = "first"
    /\ pom_first = ""
    /\ pom_second = ""
    /\ pom_calls = 0
    /\ pom_other = ""

\* the page-object synthesizer is not in use
PomIdle ==
    /\ pom_args = [page_name |-> "", elements |-> <<>>]
    /\ pom_pc = "idle"
    /\ pom_first = ""
    /\ pom_second = ""
    /\ pom_calls = 0
    /\ pom_other = ""

\* the first call of generate_page_object_template
PomFirstCall ==
    /\ pom_pc = "first"
    /\ pom_first' = generate_page_object_template(pom_args.page_name,
                                                  pom_args.elements)
    /\ pom_pc' = "between"
    /\ pom_calls' = pom_calls + 1
    /\ UNCHANGED <<pom_args, pom_second, pom_other>>
    /\ UNCHANGED other_than_pom

\* a call of generate_page_object_template with other arguments
PomOtherPageCall ==
    /\ pom_pc = "between"
    /\ pom_calls <= MaxBetween
    /\ \E other \in PomArgs :
         /\ other # pom_args
         /\ Len(other.elements) <= 1
         /\ pom_other' = generate_page_object_template(other.page_name,
                                                       other.elements)
    /\ pom_calls' = pom_calls + 1
    /\ UNCHANGED <<pom_args, pom_pc, pom_first, pom_second>>
    /\ UNCHANGED other_than_pom

\* a call of generate_task_template
PomOtherTaskCall ==
    /\ pom_pc = "between"
    /\ pom_calls <= MaxBetween
    /\ \E name \in {"AuthTasks", "CartTasks"} :
         pom_other' = generate_task_template(
                        name, "",
                        <<PageObject(pom_args.page_name, "pages/auth/loginpage.py",
                                     LoginMethods)>>)
    /\ pom_calls' = pom_calls + 1
    /\ UNCHANGED <<pom_args, pom_pc, pom_first, pom_second>>
    /\ UNCHANGED other_than_pom

\* a call of generate_test_template
PomOtherTestCall ==
    /\ pom_pc = "between"
    /\ pom_calls <= MaxBetween
    /\ pom_other' = generate_test_template("test_successful_login", "auth",
                                           SuccessfulLoginScenario)
    /\ pom_calls' = pom_calls + 1
    /\ UNCHANGED <<pom_args, pom_pc, pom_first, pom_second>>
    /\ UNCHANGED other_than_pom

\* the second call of generate_page_object_template, same arguments
PomSecondCall ==
    /\ pom_pc = "between"
    /\ pom_second' = generate_page_object_template(pom_args.page_name,
                                                   pom_args.elements)
    /\ pom_pc' = "done"
    /\ pom_calls' = pom_calls + 1
    /\ UNCHANGED <<pom_args, pom_first, pom_other>>
    /\ UNCHANGED other_than_pom

PomNext ==
    \/ PomFirstCall
    \/ PomOtherPageCall
    \/ PomOtherTaskCall
    \/ PomOtherTestCall
    \/ PomSecondCall

----------------------------------------------------------------------------
(* discover_elements: utils/element_discovery.py lines 40-74               *)

\* the most nodes of an explored page
MaxNodes == 3

\* a node of the page: the category whose selector matches it, and the
\* web element the driver returns for it
PageNode(category, node) == [category |-> category, node |-> node]

\* Explored nodes: displayed, hidden, stale, and one whose class holds
\* blanks only (its extraction raises IndexError).
PageNodes ==
    { PageNode("buttons", Node("button", "SubmitLogin", "btn", "", " Sign in ", "",
                               "", "submit", TRUE, FALSE)),
      PageNode("buttons", Node("button", "", "", "", "", "", "", "", TRUE, TRUE)),
      PageNode("links", Node("a", "", "", "", "", "", "", "", TRUE, FALSE)),
      PageNode("links", Node("a", "", "  ", "", " Help ", "", "", "", TRUE, FALSE)),
      PageNode("inputs", Node("input", "email", "", "email", "", "", "Email",
                              "text", TRUE, FALSE)),
      PageNode("inputs", Node("input", "token", "", "", "", "", "", "text",
                              FALSE, FALSE)) }

Pages == UNION {[1..n -> PageNodes] : n \in 0..MaxNodes}

\* line 63: find_elements returns the nodes the selector of the category
\* matches, in document order
FindElements(page, element_type) ==
    LET matched == SelectSeq(page, LAMBDA n : n.category = element_type)
    IN  [k \in 1..Len(matched) |-> matched[k].node]

\* the elements of the category the loop is at
CurrentElements == FindElements(disc_page, ElementTypes[disc_type])

DiscoverInit ==
    /\ disc_page \in Pages
    /\ disc_loads \in BOOLEAN
    /\ disc_pc = "start"
    /\ disc_type = 1
    /\ disc_index = 0
    /\ discovered = <<>>

\* discover_elements is not in use
DiscoverIdle ==
    /\ disc_page = <<>>
    /\ disc_loads = FALSE
    /\ disc_pc = "idle"
    /\ disc_type = 1
    /\ disc_index = 0
    /\ discovered = <<>>

\* lines 52-60: the page loads and the body is present
DiscoverLoad ==
    /\ disc_pc = "start"
    /\ disc_loads
    /\ disc_pc' = "loop"
    /\ discovered' = <<>>
    /\ UNCHANGED <<disc_page, disc_loads, disc_type, disc_index>>
    /\ UNCHANGED other_than_disc

\* lines 52-57: driver.get or the wait for the body raises
DiscoverLoadFails ==
    /\ disc_pc = "start"
    /\ ~disc_loads
    /\ disc_pc' = "raised"
    /\ UNCHANGED <<disc_page, disc_loads, disc_type, disc_index, discovered>>
    /\ UNCHANGED other_than_disc

\* lines 65-69: the element data of the next element is appended
DiscoverAppend ==
    /\ disc_pc = "loop"
    /\ disc_index < Len(CurrentElements)
    /\ LET element_data == _extract_element_data(CurrentElements[disc_index + 1],
                                                 ElementTypes[disc_type], disc_index)
       IN  /\ element_data # <<>>
           /\ discovered' = Append(discovered, element_data[1])
    /\ disc_index' = disc_index + 1
    /\ UNCHANGED <<disc_page, disc_loads, disc_pc, disc_type>>
    /\ UNCHANGED other_than_disc

\* a mutation of DiscoverSkip: an element without data ends the loop over
\* its category
DiscoverSkipBreaks ==
    /\ disc_pc = "loop"
    /\ disc_index < Len(CurrentElements)
    /\ _extract_element_data(CurrentElements[disc_index + 1],
                             ElementTypes[disc_type], disc_index) = <<>>
    /\ disc_index' = Len(CurrentElements)
    /\ UNCHANGED <<disc_page, disc_loads, disc_pc, disc_type, discovered>>
    /\ UNCHANGED other_than_disc

\* lines 65-68: an element without data (hidden, or its extraction
\* raised) is passed over
DiscoverSkip ==
    /\ disc_pc = "loop"
    /\ disc_index < Len(CurrentElements)
    /\ _extract_element_data(CurrentElements[disc_index + 1],
                             ElementTypes[disc_type], disc_index) = <<>>
    /\ disc_index' = disc_index + 1
    /\ UNCHANGED <<disc_page, disc_loads, disc_pc, disc_type, discovered>>
    /\ UNCHANGED other_than_disc

\* line 62: the loop moves on to the next category
DiscoverNextType ==
    /\ disc_pc = "loop"
    /\ disc_index = Len(CurrentElements)
    /\ disc_type < Len(ElementTypes)
    /\ disc_type' = disc_type + 1
    /\ disc_index' = 0
    /\ UNCHANGED <<disc_page, disc_loads, disc_pc, discovered>>
    /\ UNCHANGED other_than_disc

\* line 74: the list is returned after the last category
DiscoverReturn ==
    /\ disc_pc = "loop"
    /\ disc_index = Len(CurrentElements)
    /\ disc_type = Len(ElementTypes)
    /\ disc_pc' = "done"
    /\ UNCHANGED <<disc_page, disc_loads, disc_type, disc_index, discovered>>
    /\ UNCHANGED other_than_disc

DiscoverNext ==
    \/ DiscoverLoad
    \/ DiscoverLoadFails
    \/ DiscoverAppend
    \/ DiscoverSkip
    \/ DiscoverNextType
    \/ DiscoverReturn

----------------------------------------------------------------------------
(* Calls of the path resolver, utils/code_generator.py lines 855-883.      *)

\* the kinds the resolver knows, and one it does not
ComponentTypes == {"test", "role", "task", "page", "fixture"}

\* logical names: PascalCase, camelCase, snake_case, runs of capitals,
\* digits, a single letter and the empty name
ComponentNames ==
    {"LoginPage", "AuthTasks", "RegisteredUser", "test_login", "HTMLPage",
     "loginPage2", "A", ""}

\* workflow arguments; "None" is what the f-string of line 873 prints for
\* the default value None
PathWorkflows == {"auth", "cart", "", "None"}

PathInit ==
    /\ path_args \in [component_type : ComponentTypes,
                      name : ComponentNames,
                      workflow : PathWorkflows]
    /\ path_pc = "start"
    /\ path_out = ""

PathIdle ==
    /\ path_args = [component_type |-> "", name |-> "", workflow |-> ""]
    /\ path_pc = "idle"
    /\ path_out = ""

\* one call of get_file_path_for_component
PathResolve ==
    /\ path_pc = "start"
    /\ path_out' = get_file_path_for_component(path_args.component_type,
                                               path_args.name,
                                               path_args.workflow)
    /\ path_pc' = "done"
    /\ UNCHANGED path_args
    /\ UNCHANGED other_than_path

PathNext == PathResolve

----------------------------------------------------------------------------
(* Calls of generate_test_name, utils/requirements_parser.py lines 169-197, *)
(* and the prefixing of tool 6, lines 57-59.                               *)

NameTexts ==
    {"", "Scenario 1", "Successful Login!", "test_login", "Test  Login",
     "Add to\tcart (guest)", "TEST_Upper-Case", " lead, trail ", "?!"}

WhenTexts == {"", "user clicks 'Login'", "b"}

ThenTexts == {"", "Page is shown."}

\* scenario dicts; each of the keys name, when and then may be absent
NameScenarios ==
    { [k \in keys |-> CASE k = "name" -> n [] k = "when" -> w [] k = "then" -> t] :
        keys \in SUBSET {"name", "when", "then"},
        n \in NameTexts, w \in WhenTexts, t \in ThenTexts }

NameInit ==
    /\ name_args \in NameScenarios
    /\ name_pc = "start"
    /\ name_out = ""
    /\ name_again = ""
    /\ name_tool6 = ""

NameIdle ==
    /\ name_args = EmptyDict
    /\ name_pc = "idle"
    /\ name_out = ""
    /\ name_again = ""
    /\ name_tool6 = ""

\* tool 1 line 72: the name of a scenario
NameGenerate ==
    /\ name_pc = "start"
    /\ name_out' = generate_test_name(name_args, "auth")
    /\ name_pc' = "named"
    /\ UNCHANGED <<name_args, name_again, name_tool6>>
    /\ UNCHANGED other_than_name

\* the returned name is the name of a scenario that is named again
NameRegenerate ==
    /\ name_pc = "named"
    /\ name_again' =
         generate_test_name([name |-> name_out,
                             when |-> Get(name_args, "when", ""),
                             then |-> Get(name_args, "then", "")], "auth")
    /\ name_pc' = "renamed"
    /\ UNCHANGED <<name_args, name_out, name_tool6>>
    /\ UNCHANGED other_than_name

\* the returned name is the test_name argument of tool 6
NamePrefix ==
    /\ name_pc = "renamed"
    /\ name_tool6' = PrefixedTestName(name_out)
    /\ name_pc' = "done"
    /\ UNCHANGED <<name_args, name_out, name_again>>
    /\ UNCHANGED other_than_name

NameNext == NameGenerate \/ NameRegenerate \/ NamePrefix

----------------------------------------------------------------------------
(* Tool 2: tools/tool_02_discover_page_elements.py, and the helper         *)
(* discover_page_elements of utils/element_discovery.py lines 243-271.     *)

\* a JSON value of an arguments dict with its Python type
Json(type, text) == [type |-> type, text |-> text]

\* bool(value) of a JSON value
JsonTruthy(value) ==
    CASE value.type = "str" -> value.text # ""
      [] value.type = "int" -> value.text # "0"
      [] value.type = "bool" -> value.text = "True"
      [] value.type = "list" -> value.text # "[]"
      [] value.type = "NoneType" -> FALSE

\* explored url arguments: strings and values of other JSON types
UrlValues ==
    { Json("str", ""), Json("str", "shop.test/login"),
      Json("str", "http://shop.test/login"),
      Json("int", "0"), Json("int", "5"), Json("NoneType", "None"),
      Json("list", "['http://shop.test/login']") }

HeadlessValues == {Json("bool", "True"), Json("bool", "False")}

\* every key of the arguments dict may be absent
Tool2ArgDicts ==
    { [k \in keys |-> CASE k = "url" -> u [] k = "headless" -> h] :
        keys \in SUBSET {"url", "headless"},
        u \in UrlValues, h \in HeadlessValues }

\* the tool is called, or the helper is called directly, either with the
\* caller's own driver or without one
Tool2Init ==
    /\ tool2_entry \in {"tool", "helper"}
    /\ IF tool2_entry = "tool"
       THEN /\ tool2_args \in Tool2ArgDicts
            /\ tool2_pc = "start"
            /\ driver = "none"
            /\ driver_owner = "none"
       ELSE /\ tool2_args = [url |-> Json("str", "http://shop.test/login")]
            /\ tool2_pc = "helper"
            /\ \/ driver = "open" /\ driver_owner = "caller"
               \/ driver = "none" /\ driver_owner = "none"
    /\ created_driver = FALSE
    /\ quit_calls = 0
    /\ tool2_result = PendingResult

Tool2Idle ==
    /\ tool2_entry = "none"
    /\ tool2_args = EmptyDict
    /\ tool2_pc = "idle"
    /\ driver = "none"
    /\ driver_owner = "none"
    /\ created_driver = FALSE
    /\ quit_calls = 0
    /\ tool2_result = PendingResult

\* lines 30-31: the arguments with their defaults
Tool2Url == Get(tool2_args, "url", Json("str", ""))

Tool2Headless == Get(tool2_args, "headless", Json("bool", "True"))

\* a mutation of Tool2RejectArgs: the driver is created before the checks
\* and quit when they fail
Tool2RejectArgsAfterDriver ==
    /\ tool2_pc = "start"
    /\ \/ ~JsonTruthy(Tool2Url)
       \/ Tool2Url.type = "str" /\ ~StartsWith(Tool2Url.text, "http")
    /\ tool2_result' =
         IF ~JsonTruthy(Tool2Url)
         THEN [status |-> "error", error |-> "url is required"]
         ELSE [status |-> "error",
               error |-> "url must start with http:// or https://"]
    /\ tool2_pc' = "done"
    /\ driver' = "quit"
    /\ driver_owner' = "tool"
    /\ quit_calls' = quit_calls + 1
    /\ UNCHANGED <<tool2_entry, tool2_args, created_driver>>
    /\ UNCHANGED other_than_tool2

\* lines 33-44: the required-field and the format checks
Tool2RejectArgs ==
    /\ tool2_pc = "start"
    /\ \/ ~JsonTruthy(Tool2Url)
       \/ Tool2Url.type = "str" /\ ~StartsWith(Tool2Url.text, "http")
    /\ tool2_result' =
         IF ~JsonTruthy(Tool2Url)
         THEN [status |-> "error", error |-> "url is required"]
         ELSE [status |-> "error",
               error |-> "url must start with http:// or https://"]
    /\ tool2_pc' = "done"
    /\ UNCHANGED <<tool2_entry, tool2_args, driver, driver_owner,
                   created_driver, quit_calls>>
    /\ UNCHANGED other_than_tool2

\* line 40: url.startswith is evaluated outside the try statement; a value
\* that is not a string has no such method and the AttributeError leaves
\* the tool
Tool2Raise ==
    /\ tool2_pc = "start"
    /\ JsonTruthy(Tool2Url)
    /\ Tool2Url.type # "str"
    /\ tool2_pc' = "raised"
    /\ UNCHANGED <<tool2_entry, tool2_args, driver, driver_owner,
                   created_driver, quit_calls, tool2_result>>
    /\ UNCHANGED other_than_tool2

\* the url passed both checks
Tool2UrlValid ==
    /\ JsonTruthy(Tool2Url)
    /\ Tool2Url.type = "str"
    /\ StartsWith(Tool2Url.text, "http")

\* lines 48-49 and 94-99: selenium cannot be imported
Tool2ImportFails ==
    /\ tool2_pc = "start"
    /\ Tool2UrlValid
    /\ tool2_result' =
         [status |-> "error",
          error |-> "Selenium not installed. Run: pip install selenium webdriver-manager",
          details |-> "No module named 'selenium'"]
    /\ tool2_pc' = "done"
    /\ UNCHANGED <<tool2_entry, tool2_args, driver, driver_owner,
                   created_driver, quit_calls>>
    /\ UNCHANGED other_than_tool2

\* lines 59 and 101-107: webdriver.Chrome raises, no driver exists
Tool2DriverFails ==
    /\ tool2_pc = "start"
    /\ Tool2UrlValid
    /\ tool2_result' =
         [status |-> "error",
          error |-> "Failed to discover elements: chrome not reachable",
          traceback |-> "Traceback (most recent call last)"]
    /\ tool2_pc' = "done"
    /\ UNCHANGED <<tool2_entry, tool2_args, driver, driver_owner,
                   created_driver, quit_calls>>
    /\ UNCHANGED other_than_tool2

\* lines 48-59: the options are configured and the driver is created
Tool2CreateDriver ==
    /\ tool2_pc = "start"
    /\ Tool2UrlValid
    /\ driver' = "open"
    /\ driver_owner' = "tool"
    /\ tool2_pc' = "helper"
    /\ UNCHANGED <<tool2_entry, tool2_args, created_driver, quit_calls,
                   tool2_result>>
    /\ UNCHANGED other_than_tool2

\* discover_page_elements lines 254-266 with a driver passed in: discovery
\* starts on the page the browser finds at the url
HelperEnter ==
    /\ tool2_pc = "helper"
    /\ driver = "open"
    /\ created_driver' = FALSE
    /\ tool2_pc' = "discovering"
    /\ disc_page' \in Pages
    /\ disc_loads' \in BOOLEAN
    /\ disc_pc' = "start"
    /\ UNCHANGED <<disc_type, disc_index, discovered>>
    /\ UNCHANGED <<tool2_entry, tool2_args, driver, driver_owner,
                   quit_calls, tool2_result>>
    /\ UNCHANGED other_than_tool2_disc

\* discover_page_elements lines 255-266 without a driver: the helper
\* creates one and notes it
HelperCreateDriver ==
    /\ tool2_pc = "helper"
    /\ driver = "none"
    /\ driver' = "open"
    /\ driver_owner' = "helper"
    /\ created_driver' = TRUE
    /\ tool2_pc' = "discovering"
    /\ disc_page' \in Pages
    /\ disc_loads' \in BOOLEAN
    /\ disc_pc' = "start"
    /\ UNCHANGED <<disc_type, disc_index, discovered>>
    /\ UNCHANGED <<tool2_entry, tool2_args, quit_calls, tool2_result>>
    /\ UNCHANGED other_than_tool2_disc

\* discover_page_elements line 260: webdriver.Chrome raises before the try
\* statement, the exception reaches the caller
HelperDriverFails ==
    /\ tool2_pc = "helper"
    /\ driver = "none"
    /\ tool2_pc' = "raised"
    /\ UNCHANGED <<tool2_entry, tool2_args, driver, driver_owner,
                   created_driver, quit_calls, tool2_result>>
    /\ UNCHANGED other_than_tool2

\* a mutation of HelperExit: the helper quits whatever driver it used
HelperExitQuitsAlways ==
    /\ tool2_pc = "discovering"
    /\ disc_pc \in {"done", "raised"}
    /\ driver' = "quit"
    /\ quit_calls' = quit_calls + 1
    /\ tool2_pc' =
         IF tool2_entry = "tool"
         THEN (IF disc_pc = "done" THEN "returned" ELSE "failed")
         ELSE (IF disc_pc = "done" THEN "done" ELSE "raised")
    /\ UNCHANGED <<tool2_entry, tool2_args, driver_owner, created_driver,
                   tool2_result>>
    /\ UNCHANGED other_than_tool2

\* discover_page_elements lines 264-271: discovery returned or raised; the
\* finally clause quits the driver only if the helper created it
HelperExit ==
    /\ tool2_pc = "discovering"
    /\ disc_pc \in {"done", "raised"}
    /\ driver' = IF created_driver THEN "quit" ELSE driver
    /\ quit_calls' = IF created_driver THEN quit_calls + 1 ELSE quit_calls
    /\ tool2_pc' =
         IF tool2_entry = "tool"
         THEN (IF disc_pc = "done" THEN "returned" ELSE "failed")
         ELSE (IF disc_pc = "done" THEN "done" ELSE "raised")
    /\ UNCHANGED <<tool2_entry, tool2_args, driver_owner, created_driver,
                   tool2_result>>
    /\ UNCHANGED other_than_tool2

\* lines 66-71 and 77: the number of elements of each type present
ElementsByType(elements) ==
    LET present == {elements[k].element_type : k \in 1..Len(elements)}
    IN  [t \in present |->
           Cardinality({k \in 1..Len(elements) : elements[k].element_type = t})]

\* lines 63-92: the envelope is built and the finally clause quits the
\* driver; an exception of discovery, or of quit itself, is reported by
\* lines 101-107
Tool2Finish ==
    /\ tool2_pc \in {"returned", "failed"}
    /\ driver' = "quit"
    /\ quit_calls' = quit_calls + 1
    /\ \E quit_raises \in BOOLEAN :
         tool2_result' =
           IF tool2_pc = "returned" /\ ~quit_raises
           THEN [status |-> "success",
                 url |-> Tool2Url.text,
                 total_elements |-> Len(discovered),
                 elements_by_type |-> ElementsByType(discovered),
                 elements |-> discovered,
                 next_steps |-> <<"Review discovered elements",
                                  "Select relevant elements for POM",
                                  "Use Tool 6 (generate_page_object) to create POM code",
                                  "Optionally filter elements before passing to Tool 6">>]
           ELSE [status |-> "error",
                 error |-> "Failed to discover elements: "
                           \o (IF quit_raises THEN "quit failed"
                               ELSE "page did not load"),
                 traceback |-> "Traceback (most recent call last)"]
    /\ tool2_pc' = "done"
    /\ UNCHANGED <<tool2_entry, tool2_args, driver_owner, created_driver>>
    /\ UNCHANGED other_than_tool2

Tool2Next ==
    \/ Tool2RejectArgs
    \/ Tool2Raise
    \/ Tool2ImportFails
    \/ Tool2DriverFails
    \/ Tool2CreateDriver
    \/ HelperEnter
    \/ HelperCreateDriver
    \/ HelperDriverFails
    \/ DiscoverNext
    \/ HelperExit
    \/ Tool2Finish

----------------------------------------------------------------------------
(* Role synthesizer, utils/code_generator.py lines 265-361, and tool 5,    *)
(* tools/tool_05_generate_role.py.                                         *)

\* the most capability tags of an explored call
MaxCaps == 2

\* lines 283-315: the text added for the capability 'can_login'
LoginCapabilityText ==
    "\n"
    \o "    # ==================== AUTHENTICATION WORKFLOWS ====================\n"
    \o "\n"
    \o "    def login(self) -> bool:\n"
    \o "        \"\"\"\n"
    \o "        Log in to the application.\n"
    \o "\n"
    \o "        High-level business workflow that orchestrates authentication.\n"
    \o "\n"
    \o "        Returns:\n"
    \o "            True if login successful, False otherwise\n"
    \o "        \"\"\"\n"
    \o "        return self.common_tasks.log_in(self.email, self.password)\n"
    \o "\n"
    \o "    def logout(self) -> bool:\n"
    \o "        \"\"\"\n"
    \o "        Log out from the application.\n"
    \o "\n"
    \o "        Returns:\n"
    \o "            True if logout successful, False otherwise\n"
    \o "        \"\"\"\n"
    \o "        return self.common_tasks.log_out()\n"
    \o "\n"
    \o "    def is_logged_in(self) -> bool:\n"
    \o "        \"\"\"\n"
    \o "        Check if user is currently logged in.\n"
    \o "\n"
    \o "        Returns:\n"
    \o "            True if logged in, False otherwise\n"
    \o "        \"\"\"\n"
    \o "        return self.common_tasks.verify_logged_in()\n"

\* lines 317-359: the module and class text around the generated parts
RoleClassText(role_name, capabilities_line, capability_methods) ==
    "\"\"\"\n"
    \o role_name
    \o " Role.\n"
    \o "\n"
    \o "This role represents a user with specific capabilities and permissions.\n"
    \o "\"\"\"\n"
    \o "\n"
    \o "from typing import Dict, Any\n"
    \o "from framework.roles.role import Role\n"
    \o "from framework.interfaces.web_interface import WebInterface\n"
    \o "from framework.tasks.common_tasks import CommonTasks\n"
    \o "\n"
    \o "\n"
    \o "class "
    \o role_name
    \o "(Role):\n"
    \o "    \"\"\"\n"
    \o "    "
    \o role_name
    \o " role with workflow capabilities.\n"
    \o "\n"
    \o "    Capabilities: "
    \o capabilities_line
    \o "\n"
    \o "    \"\"\"\n"
    \o "\n"
    \o "    def __init__(self, web_interface: WebInterface, user_data: Dict[str, Any], base_url: str):\n"
    \o "        \"\"\"\n"
    \o "        Initialize "
    \o role_name
    \o ".\n"
    \o "\n"
    \o "        Args:\n"
    \o "            web_interface: WebInterface instance for browser interactions\n"
    \o "            user_data: Dictionary containing user credentials and profile data\n"
    \o "            base_url: Application base URL for navigation\n"
    \o "        \"\"\"\n"
    \o "        super().__init__(web_interface, user_data)\n"
    \o "\n"
    \o "        # Validate required credentials\n"
    \o "        if not self.has_credentials():\n"
    \o "            raise ValueError(\""
    \o role_name
    \o " requires email and password in user_data\")\n"
    \o "\n"
    \o "        # Compose task modules\n"
    \o "        self.common_tasks = CommonTasks(web_interface, base_url)\n"
    \o "\n"
    \o "        # TODO: Add additional task modules as needed\n"
    \o capability_methods
    \o "\n"
    \o "    # TODO: Add role-specific workflow methods\n"

\* line 282: "can_login" in capabilities
HasCanLogin(capabilities) ==
    \E k \in 1..Len(capabilities) :
        capabilities[k] = Json("str", "can_login")

\* line 333: ', '.join(capabilities), or 'None specified' for no tag
CapabilitiesLine(capabilities) ==
    IF Len(capabilities) = 0 THEN "None specified"
    ELSE Join([k \in 1..Len(capabilities) |-> capabilities[k].text], ", ")

\* line 333: str.join raises TypeError for an item that is not a string
RoleTemplateRaises(capabilities) ==
    \E k \in 1..Len(capabilities) : capabilities[k].type # "str"

\* a mutation of generate_role_template: any capability adds the methods
generate_role_template_any_capability(role_name, capabilities, credentials) ==
    RoleClassText(role_name, CapabilitiesLine(capabilities),
                  IF Len(capabilities) > 0 THEN LoginCapabilityText ELSE "")

\* lines 265-361; credentials is never read
generate_role_template(role_name, capabilities, credentials) ==
    RoleClassText(role_name, CapabilitiesLine(capabilities),
                  IF HasCanLogin(capabilities) THEN LoginCapabilityText ELSE "")

\* Explored arguments of tool 5.
RoleNames == {"", "RegisteredUser", "GuestUser"}

\* capability tags: the known one, two unknown ones, and a number
CapabilityTags ==
    { Json("str", "can_login"), Json("str", "can_logout"),
      Json("str", "Can_Login"), Json("int", "5") }

CapabilityLists == UNION {[1..n -> CapabilityTags] : n \in 0..MaxCaps}

CredentialDicts ==
    { EmptyDict, [email |-> "test@example.com", password |-> "Test123!"] }

\* every key of the arguments dict may be absent
Tool5ArgDicts ==
    { [k \in keys |-> CASE k = "role_name" -> n [] k = "capabilities" -> c
                        [] k = "credentials" -> cr] :
        keys \in SUBSET {"role_name", "capabilities", "credentials"},
        n \in RoleNames, c \in CapabilityLists, cr \in CredentialDicts }

Tool5Init ==
    /\ tool5_args \in Tool5ArgDicts
    /\ tool5_pc = "call"
    /\ tool5_result = PendingResult

Tool5Idle ==
    /\ tool5_args = EmptyDict
    /\ tool5_pc = "idle"
    /\ tool5_result = PendingResult

\* lines 30-32: the arguments with their defaults
Tool5RoleName == Get(tool5_args, "role_name", "")

Tool5Capabilities == Get(tool5_args, "capabilities", <<>>)

Tool5Credentials == Get(tool5_args, "credentials", EmptyDict)

\* lines 34-38: the required-field check
Tool5RejectArgs ==
    /\ tool5_pc = "call"
    /\ Tool5RoleName = ""
    /\ tool5_result' = [error |-> "role_name is required", status |-> "error"]
    /\ tool5_pc' = "done"
    /\ UNCHANGED tool5_args
    /\ UNCHANGED other_than_tool5

\* lines 40-60: the role code, its path and the success envelope
Tool5Generate ==
    /\ tool5_pc = "call"
    /\ Tool5RoleName # ""
    /\ ~RoleTemplateRaises(Tool5Capabilities)
    /\ tool5_result' =
         [status |-> "success",
          role_name |-> Tool5RoleName,
          file_path |-> get_file_path_for_component("role", Tool5RoleName, "None"),
          capabilities |-> Tool5Capabilities,
          code |-> generate_role_template(Tool5RoleName, Tool5Capabilities,
                                          Tool5Credentials),
          next_steps |-> <<"Save role code to suggested file path",
                           "Implement capability methods",
                           "Use role in tests">>]
    /\ tool5_pc' = "done"
    /\ UNCHANGED tool5_args
    /\ UNCHANGED other_than_tool5

\* lines 62-68: the caught exception becomes an error envelope
Tool5Fail ==
    /\ tool5_pc = "call"
    /\ Tool5RoleName # ""
    /\ RoleTemplateRaises(Tool5Capabilities)
    /\ tool5_result' =
         [error |-> "Failed to generate role: sequence item "
                    \o ToString(SetMin({k \in 1..Len(Tool5Capabilities) :
                                          Tool5Capabilities[k].type # "str"}) - 1)
                    \o ": expected str instance, int found",
          status |-> "error",
          traceback |-> "Traceback (most recent call last): ..."]
    /\ tool5_pc' = "done"
    /\ UNCHANGED tool5_args
    /\ UNCHANGED other_than_tool5

Tool5Next == Tool5RejectArgs \/ Tool5Generate \/ Tool5Fail

----------------------------------------------------------------------------
(* Calls of the test synthesizer, utils/code_generator.py lines 173-262.   *)

SynthWorkflows == {"auth", "catalog", "cart", "checkout"}

SynthTestName == "test_generated"

SynthInit ==
    /\ synth_args \in [workflow : SynthWorkflows, scenario : MapScenarios]
    /\ synth_pc = "call"
    /\ synth_code = ""

SynthIdle ==
    /\ synth_args = [workflow |-> "", scenario |-> <<>>]
    /\ synth_pc = "idle"
    /\ synth_code = ""

\* one call of generate_test_template
SynthGenerate ==
    /\ synth_pc = "call"
    /\ synth_code' = generate_test_template(SynthTestName, synth_args.workflow,
                                            synth_args.scenario)
    /\ synth_pc' = "done"
    /\ UNCHANGED synth_args
    /\ UNCHANGED other_than_synth

SynthNext == SynthGenerate

----------------------------------------------------------------------------
(* Specifications: one per entry point.                                    *)

Init == StoryInit /\ MapIdle /\ TestIdle /\ TaskIdle /\ Tool4Idle /\ ExtractIdle /\ Tool3Idle /\ PomIdle /\ DiscoverIdle /\ PathIdle /\ NameIdle /\ Tool2Idle /\ Tool5Idle /\ SynthIdle

Next == StoryNext

Spec == Init /\ [][Next]_vars

InitMapper == MapInit /\ StoryIdle /\ TestIdle /\ TaskIdle /\ Tool4Idle /\ ExtractIdle /\ Tool3Idle /\ PomIdle /\ DiscoverIdle /\ PathIdle /\ NameIdle /\ Tool2Idle /\ Tool5Idle /\ SynthIdle

NextMapper == MapNext

SpecMapper == InitMapper /\ [][NextMapper]_vars

InitTest == TestInit /\ StoryIdle /\ MapIdle /\ TaskIdle /\ Tool4Idle /\ ExtractIdle /\ Tool3Idle /\ PomIdle /\ DiscoverIdle /\ PathIdle /\ NameIdle /\ Tool2Idle /\ Tool5Idle /\ SynthIdle

NextTest == TestNext

SpecTest == InitTest /\ [][NextTest]_vars

InitTask == TaskInit /\ StoryIdle /\ MapIdle /\ TestIdle /\ Tool4Idle /\ ExtractIdle /\ Tool3Idle /\ PomIdle /\ DiscoverIdle /\ PathIdle /\ NameIdle /\ Tool2Idle /\ Tool5Idle /\ SynthIdle

NextTask == TaskNext

SpecTask == InitTask /\ [][NextTask]_vars

InitTool4 == Tool4Init /\ StoryIdle /\ MapIdle /\ TestIdle /\ TaskIdle /\ ExtractIdle /\ Tool3Idle /\ PomIdle /\ DiscoverIdle /\ PathIdle /\ NameIdle /\ Tool2Idle /\ Tool5Idle /\ SynthIdle

NextTool4 == Tool4Next

SpecTool4 == InitTool4 /\ [][NextTool4]_vars

InitExtract == ExtractInit /\ StoryIdle /\ MapIdle /\ TestIdle /\ TaskIdle /\ Tool4Idle /\ Tool3Idle /\ PomIdle /\ DiscoverIdle /\ PathIdle /\ NameIdle /\ Tool2Idle /\ Tool5Idle /\ SynthIdle

NextExtract == ExtractNext

SpecExtract == InitExtract /\ [][NextExtract]_vars

InitTool3 == Tool3Init /\ StoryIdle /\ MapIdle /\ TestIdle /\ TaskIdle /\ Tool4Idle /\ ExtractIdle /\ PomIdle /\ DiscoverIdle /\ PathIdle /\ NameIdle /\ Tool2Idle /\ Tool5Idle /\ SynthIdle

NextTool3 == Tool3Next

SpecTool3 == InitTool3 /\ [][NextTool3]_vars

InitPom == PomInit /\ StoryIdle /\ MapIdle /\ TestIdle /\ TaskIdle /\ Tool4Idle /\ ExtractIdle /\ Tool3Idle /\ DiscoverIdle /\ PathIdle /\ NameIdle /\ Tool2Idle /\ Tool5Idle /\ SynthIdle

NextPom == PomNext

SpecPom == InitPom /\ [][NextPom]_vars

InitDiscover == DiscoverInit /\ StoryIdle /\ MapIdle /\ TestIdle /\ TaskIdle /\ Tool4Idle /\ ExtractIdle /\ Tool3Idle /\ PomIdle /\ PathIdle /\ NameIdle /\ Tool2Idle /\ Tool5Idle /\ SynthIdle

NextDiscover == DiscoverNext

SpecDiscover == InitDiscover /\ [][NextDiscover]_vars

InitPath == PathInit /\ StoryIdle /\ MapIdle /\ TestIdle /\ TaskIdle /\ Tool4Idle /\ ExtractIdle /\ Tool3Idle /\ PomIdle /\ DiscoverIdle /\ NameIdle /\ Tool2Idle /\ Tool5Idle /\ SynthIdle

NextPath == PathNext

SpecPath == InitPath /\ [][NextPath]_vars

InitName == NameInit /\ StoryIdle /\ MapIdle /\ TestIdle /\ TaskIdle /\ Tool4Idle /\ ExtractIdle /\ Tool3Idle /\ PomIdle /\ DiscoverIdle /\ PathIdle /\ Tool2Idle /\ Tool5Idle /\ SynthIdle

NextName == NameNext

SpecName == InitName /\ [][NextName]_vars

InitTool2 == Tool2Init /\ StoryIdle /\ MapIdle /\ TestIdle /\ TaskIdle /\ Tool4Idle /\ ExtractIdle /\ Tool3Idle /\ PomIdle /\ DiscoverIdle /\ PathIdle /\ NameIdle /\ Tool5Idle /\ SynthIdle

NextTool2 == Tool2Next

SpecTool2 == InitTool2 /\ [][NextTool2]_vars

InitTool5 == Tool5Init /\ StoryIdle /\ MapIdle /\ TestIdle /\ TaskIdle /\ Tool4Idle /\ ExtractIdle /\ Tool3Idle /\ PomIdle /\ DiscoverIdle /\ PathIdle /\ NameIdle /\ Tool2Idle /\ SynthIdle

NextTool5 == Tool5Next

SpecTool5 == InitTool5 /\ [][NextTool5]_vars

\* The six tools of the server: one call of any one of them.
InitTools ==
    \/ Init
    \/ InitTool2
    \/ InitTool3
    \/ InitTool4
    \/ InitTool5
    \/ InitTest

NextTools ==
    \/ StoryNext
    \/ Tool2Next
    \/ Tool3Next
    \/ Tool4Next
    \/ Tool5Next
    \/ TestNext

SpecTools == InitTools /\ [][NextTools]_vars

InitSynth == SynthInit /\ StoryIdle /\ MapIdle /\ TestIdle /\ TaskIdle /\ Tool4Idle /\ ExtractIdle /\ Tool3Idle /\ PomIdle /\ DiscoverIdle /\ PathIdle /\ NameIdle /\ Tool2Idle /\ Tool5Idle

NextSynth == SynthNext

SpecSynth == InitSynth /\ [][NextSynth]_vars

----------------------------------------------------------------------------
(* Properties of the story parser and of tool 1.                           *)

\* the text that follows keyword kw on a raw line, "" when the line does
\* not start with kw
KeywordText(raw, kw) ==
    LET line == Strip(raw)
    IN  IF StartsWith(Lower(line), kw)
        THEN Strip(ReSplitKeyword(line, kw)[2])
        ELSE ""

\* three consecutive lines Given/When/Then, each with non-empty text
HasWellFormedBlock(ls) ==
    \E k \in 1..(Len(ls) - 2) :
        /\ KeywordText(ls[k], "given") # ""
        /\ KeywordText(ls[k + 1], "when") # ""
        /\ KeywordText(ls[k + 2], "then") # ""

\* no line starts with 'given' or with a scenario marker
NoMarkers(ls) ==
    \A k \in 1..Len(ls) :
        LET lower_line == Lower(Strip(ls[k]))
        IN  ~StartsWith(lower_line, "given") /\ ~IsScenarioMarker(lower_line)

StoryArgsValid == story_args.user_story # "" /\ story_args.workflow # ""

\* C1: a story that contains a well-formed Given/When/Then block parses to
\* at least one scenario whose when and then are both non-empty, whatever
\* lines precede or follow the block.
C1_BlockYieldsScenario ==
    (story_pc = "build" /\ HasWellFormedBlock(lines))
        => \E k \in 1..Len(scenarios) :
               scenarios[k].when # "" /\ scenarios[k].then # ""

\* C2: a non-empty story without a 'given' line and without a scenario
\* marker parses to the empty list, and the tool returns an error envelope
\* (with the hint when the workflow argument is present).
C2_NoMarkersIsError ==
    LET ls == Split(story_args.user_story, "\n")
    IN  /\ (story_pc = "build" /\ NoMarkers(ls)) => Len(scenarios) = 0
        /\ (story_pc = "done" /\ story_args.user_story # "" /\ NoMarkers(ls))
             => /\ story_result.status = "error"
                /\ story_args.workflow # "" => "hint" \in DOMAIN story_result

\* a story with When/Then lines but no marker has been answered
C2_Witness ==
    /\ story_pc = "done"
    /\ StoryArgsValid
    /\ NoMarkers(lines)
    /\ \E k \in 1..Len(lines) : KeywordText(lines[k], "when") # ""
    /\ \E k \in 1..Len(lines) : KeywordText(lines[k], "then") # ""
    /\ story_result.status = "error"
    /\ "hint" \in DOMAIN story_result

\* C3: a success envelope of tool 1 always carries at least one scenario.
C3_SuccessHasScenario ==
    (story_pc = "done" /\ story_result.status = "success")
        => /\ story_result.scenarios_count >= 1
           /\ Len(story_result.scenarios) >= 1

\* the Given/When/Then triple of a scenario dict
Triple(sc) == <<sc.given, sc.when, sc.then>>

HasWhenAndThen(sc) == sc.when # "" /\ sc.then # ""

\* C4: every scenario tool 1 returns has a non-empty when and then; the
\* returned list is the parsed list without the scenarios that miss
\* either, in the parser's (story text) order.
C4_OnlyValidInOrder ==
    (story_pc = "done" /\ story_result.status = "success")
        => LET out  == story_result.scenarios
               kept == SelectSeq(scenarios, HasWhenAndThen)
           IN  /\ \A k \in 1..Len(out) : out[k].when # "" /\ out[k].then # ""
               /\ Len(out) = Len(kept)
               /\ \A k \in 1..Len(out) : Triple(out[k]) = Triple(kept[k])

\* two valid scenarios around a dropped one
C4_Witness ==
    /\ story_pc = "done"
    /\ story_result.status = "success"
    /\ Len(scenarios) = 3
    /\ Len(story_result.scenarios) = 2
    /\ story_result.scenarios[1].when = "b"
    /\ story_result.scenarios[2].when = "e"

----------------------------------------------------------------------------
(* Properties of the scenario-to-test-logic mapper.                        *)

MapGiven == Lower(Get(map_args.scenario, "given", ""))

MapWhen == Lower(Get(map_args.scenario, "when", ""))

MapThen == Lower(Get(map_args.scenario, "then", ""))

\* C5: for workflow 'auth' and a login scenario (when mentions email and
\* password, then mentions 'logged in') whose given contains 'invalid', the
\* assertion fragment asserts that the result is False, never True.
C5_InvalidAssertsFalse ==
    (/\ map_pc = "done"
     /\ map_args.workflow = "auth"
     /\ Contains(MapWhen, "email") /\ Contains(MapWhen, "password")
     /\ Contains(MapThen, "logged in")
     /\ Contains(MapGiven, "invalid"))
        => /\ Contains(map_out[3], "assert result is False")
           /\ ~Contains(map_out[3], "assert result is True")

\* the text between the parentheses of a call fragment  prefix(...)
CallArguments(fragment, prefix) ==
    SubSeq(fragment, Len(prefix) + 1, Len(fragment) - 1)

\* C6: for workflow 'auth' and the 'Successful login' scenario the action
\* fragment is a call of auth_tasks.login with exactly two arguments and
\* the assertion fragment asserts that the result is True.
C6_SuccessfulLogin ==
    (/\ map_pc = "done"
     /\ map_args.workflow = "auth"
     /\ DOMAIN map_args.scenario = ScenarioKeys
     /\ map_args.scenario = SuccessfulLoginScenario)
        => LET call == "result = auth_tasks.login("
               args == Split(CallArguments(map_out[2], call), ",")
           IN  /\ StartsWith(map_out[2], call)
               /\ Char(map_out[2], Len(map_out[2])) = ")"
               /\ Len(args) = 2
               /\ Strip(args[1]) = "test_email"
               /\ Strip(args[2]) = "test_password"
               /\ StartsWith(map_out[3], "assert result is True")
               /\ ~Contains(map_out[3], "assert result is False")

C6_Witness ==
    /\ map_pc = "done"
    /\ map_args.workflow = "auth"
    /\ DOMAIN map_args.scenario = ScenarioKeys
    /\ map_args.scenario = SuccessfulLoginScenario
    /\ Contains(map_out[1], "test_email = ")

\* some keyword rule of the workflow matches the scenario
RuleMatches ==
    \/ /\ map_args.workflow = "auth"
       /\ \/ Contains(MapWhen, "login") \/ Contains(MapWhen, "log in")
          \/ Contains(MapWhen, "sign in")
          \/ (Contains(MapWhen, "email") /\ Contains(MapWhen, "password"))
          \/ Contains(MapThen, "logged in") \/ Contains(MapThen, "dashboard")
          \/ Contains(MapWhen, "logout") \/ Contains(MapWhen, "log out")
          \/ Contains(MapWhen, "sign out")
          \/ Contains(MapWhen, "register") \/ Contains(MapWhen, "sign up")
          \/ Contains(MapWhen, "create account")
    \/ /\ map_args.workflow = "catalog"
       /\ \/ /\ \/ Contains(MapWhen, "browse") \/ Contains(MapWhen, "view")
                \/ Contains(MapWhen, "navigate")
             /\ Contains(MapWhen, "category")
          \/ Contains(MapWhen, "filter")
          \/ Contains(MapWhen, "sort")
    \/ /\ map_args.workflow = "cart"
       /\ \/ (Contains(MapWhen, "add") /\ Contains(MapWhen, "cart"))
          \/ Contains(MapWhen, "remove")
          \/ Contains(MapWhen, "update") \/ Contains(MapWhen, "change quantity")
    \/ /\ map_args.workflow = "checkout"
       /\ (Contains(MapWhen, "checkout") \/ Contains(MapWhen, "place order"))

\* C7: for every workflow string and every scenario (keys possibly empty
\* or absent) the mapper returns three non-empty fragments, and when no
\* keyword rule of the workflow matches all three are '# TODO' fragments.
C7_NeverEmptyFallsBack ==
    map_pc = "done"
        => /\ \A k \in 1..3 : map_out[k] # ""
           /\ ~RuleMatches => \A k \in 1..3 : StartsWith(map_out[k], "# TODO")

\* an unrecognized workflow with a scenario that has no key at all
C7_Witness ==
    /\ map_pc = "done"
    /\ map_args.workflow = "payments"
    /\ DOMAIN map_args.scenario = {}
    /\ \A k \in 1..3 : StartsWith(map_out[k], "# TODO")

----------------------------------------------------------------------------
(* Properties of the test-template tool.                                   *)

\* C8: called with a non-empty test_name and workflow (role omitted or
\* given, scenario omitted or given) tool 6 returns a success envelope
\* whose code is a test function of that name; with a matching scenario the
\* code holds the mapper's three fragments and no TODO, without a scenario
\* it holds the placeholder comments.
C8_ToolReturnsTest ==
    (test_pc = "done" /\ TestName # "" /\ TestWorkflow # "" /\ TestRole # "")
        => /\ test_result.status = "success"
           /\ Contains(test_result.code,
                       "def " \o PrefixedTestName(TestName) \o "(web_interface, config):")
           /\ LET m == MatchedFragments(TestWorkflow, TestScenarioArg)
              IN  IF Truthy(TestScenarioArg)
                  THEN (\A k \in 1..3 : m[k] # "")
                          => /\ \A k \in 1..3 : Contains(test_result.code, m[k])
                             /\ ~Contains(test_result.code, "TODO")
                  ELSE /\ Contains(test_result.code, "# TODO: Add test data")
                       /\ Contains(test_result.code, "# TODO: Implement")
                       /\ Contains(test_result.code, "# TODO: Add assertions")

----------------------------------------------------------------------------
(* Properties of the task synthesizer.                                     *)

NotImplementedRaise == "raise NotImplementedError"

\* C9: for task name 'AuthTasks' a task synthesized with a page object
\* whose methods are [enter_email, enter_passwd, click_submitlogin] holds
\* no 'not implemented' raise, and one synthesized with an empty method
\* list (no page object, or a page object without methods) holds it.
C9_AuthTasksRaiseIffNoMethods ==
    (task_pc = "done" /\ task_args.task_name = "AuthTasks")
        => LET pos == task_args.page_objects
           IN  /\ (Len(pos) > 0 /\ pos[1].methods = LoginMethods)
                    => ~Contains(task_code, NotImplementedRaise)
               /\ (Len(pos) = 0 \/ (Len(pos) > 0 /\ pos[1].methods = <<>>))
                    => Contains(task_code, NotImplementedRaise)

\* C10: for the auth family with a page object supplied, a method list
\* with an enter-email, an enter-pass and a click-submit-login method
\* yields complete login and logout bodies that call members of the list;
\* any other list yields the placeholder that raises 'not implemented'.
C10_AuthCompleteOrPlaceholder ==
    (/\ task_pc = "done"
     /\ Lower(Replace(task_args.task_name, "Tasks", "")) = "auth"
     /\ Len(task_args.page_objects) > 0)
        => LET po == task_args.page_objects[1]
               ms == {po.methods[k] : k \in 1..Len(po.methods)}
               emails == {m \in ms : Contains(m, "enter") /\ Contains(m, "email")}
               passes == {m \in ms : Contains(m, "enter") /\ Contains(m, "pass")}
               submits == {m \in ms : Contains(m, "submit") /\ Contains(m, "login")
                                      /\ Contains(m, "click")}
               call == "self." \o PageVar(po.name) \o "."
           IN  IF emails # {} /\ passes # {} /\ submits # {}
               THEN /\ Contains(task_code, "def login(self, email: str, password: str) -> bool:")
                    /\ Contains(task_code, "def logout(self) -> bool:")
                    /\ \E m \in emails : Contains(task_code, call \o m \o "(email)")
                    /\ \E m \in passes : Contains(task_code, call \o m \o "(password)")
                    /\ \E m \in submits : Contains(task_code, call \o m \o "()")
                    /\ ~Contains(task_code, NotImplementedRaise)
               ELSE Contains(task_code, NotImplementedRaise)

\* the family the specification derives from a task name: only a trailing
\* 'Tasks' is removed, then the rest is lower-cased
SuffixFamily(task_name) ==
    LET n == Len(task_name)
    IN  Lower(IF n >= 5 /\ SubSeq(task_name, n - 4, n) = "Tasks"
              THEN SubSeq(task_name, 1, n - 5)
              ELSE task_name)

KnownFamilies == {"auth", "catalog", "cart"}

GenericPlaceholderDef == "def example_workflow(self, param: str) -> bool:"

GenericPlaceholderRaise ==
    "raise NotImplementedError(\"Workflow not yet implemented\")"

\* C11: for every task name whose workflow family is not auth, catalog or
\* cart and every non-empty list of page objects, the call returns a task
\* that contains the generic placeholder workflow with its 'not
\* implemented' raise and no login, browse_category or add_to_cart body.
C11_UnknownFamilyGeneric ==
    (/\ task_pc \in {"done", "raised"}
     /\ SuffixFamily(task_args.task_name) \notin KnownFamilies
     /\ Len(task_args.page_objects) > 0)
        => /\ task_pc = "done"
           /\ Contains(task_code, GenericPlaceholderDef)
           /\ Contains(task_code, GenericPlaceholderRaise)
           /\ ~Contains(task_code, "def login(")
           /\ ~Contains(task_code, "def browse_category(")
           /\ ~Contains(task_code, "def add_to_cart(")

\* C12: the workflow family the task synthesizer uses is the task name
\* with only a trailing 'Tasks' removed, lower-cased.  The family shows in
\* the output: without page objects in the import hint, with the three
\* login methods in the presence of the login body.
C12_FamilyStripsSuffixOnly ==
    task_pc = "done"
        => LET pos == task_args.page_objects
               family == SuffixFamily(task_args.task_name)
           IN  /\ Len(pos) = 0
                    => Contains(task_code,
                                "# from pages." \o family \o ".some_page import SomePage")
               /\ (Len(pos) > 0 /\ pos[1].methods = LoginMethods)
                    => (Contains(task_code, "def login(") <=> family = "auth")

----------------------------------------------------------------------------
(* Properties of tool 4.                                                   *)

\* the returned code holds a complete workflow: a workflow method other
\* than the example stub, and no 'not implemented' raise
HasCompleteWorkflow(code) ==
    /\ \/ Contains(code, "def login(")
       \/ Contains(code, "def browse_category(")
       \/ Contains(code, "def add_to_cart(")
    /\ ~Contains(code, NotImplementedRaise)

\* C13: for every task name and page-object input, the envelope of
\* generate_task has status 'success', and workflows_generated is
\* 'COMPLETE' when the returned code holds a complete workflow and no 'not
\* implemented' raise, and 'PLACEHOLDER' in every other case.
C13_StatusTellsOutputsApart ==
    (tool4_pc = "done" /\ Tool4TaskName # "")
        => /\ tool4_result.status = "success"
           /\ tool4_result.workflows_generated =
                IF HasCompleteWorkflow(tool4_result.code)
                THEN "COMPLETE" ELSE "PLACEHOLDER"

----------------------------------------------------------------------------
(* Properties of the page-object layer.                                    *)

\* the names of the interaction methods the synthesizer emits for a list
EmittedMethodNames(elements) ==
    UNION {{PomMethodNames(elements[k])[j] :
              j \in 1..Len(PomMethodNames(elements[k]))} :
           k \in 1..Len(elements)}

Tool3Succeeded ==
    tool3_pc = "done" /\ tool3_result.status = "success"

\* C14: for every element list, the set of method names that
\* extract_method_names_from_pom reads out of the generated page-object
\* code equals the set of method names the page-object synthesizer
\* emitted for that list.
C14_RoundTrip ==
    Tool3Succeeded
        => LET found == extract_method_names_from_pom(tool3_result.code)
           IN  {found[k] : k \in 1..Len(found)}
                 = EmittedMethodNames(TransformElements(Tool3ElementsArg))

\* the number of places where kw occurs in s
Occurrences(s, kw) ==
    Cardinality({k \in 1..(Len(s) - Len(kw) + 1) : SubSeq(s, k, k + Len(kw) - 1) = kw})

\* an element the tool accepts: it has a name and a locator candidate
Accepted(elem) ==
    /\ Get(elem, "suggested_name", "") # ""
    /\ \/ Get(elem, "locator_id", "") # ""
       \/ Get(elem, "locator_css", "") # ""
       \/ Get(elem, "locator_xpath", "") # ""

\* the first non-empty locator candidate of an accepted element
FirstLocator(elem) ==
    IF Get(elem, "locator_id", "") # "" THEN elem.locator_id
    ELSE IF Get(elem, "locator_css", "") # "" THEN elem.locator_css
    ELSE elem.locator_xpath

MethodPrefixes == {"enter_", "click_", "select_", "check_", "uncheck_"}

\* the method prefixes an element type calls for
PrefixesOf(element_type) ==
    CASE element_type = "inputs" -> {"enter_"}
      [] element_type \in {"buttons", "links"} -> {"click_"}
      [] element_type = "selects" -> {"select_"}
      [] element_type = "checkboxes" -> {"check_", "uncheck_"}
      [] OTHER -> {}

\* the positions of the line breaks of code, and 0 for the first line
LineBreaks(code) == {0} \cup {k \in 1..Len(code) : Char(code, k) = "\n"}

\* the line breaks of code after which a line starts with kw
LinesWith(code, breaks, kw) ==
    {k \in breaks : /\ k + Len(kw) <= Len(code)
                    /\ SubSeq(code, k + 1, k + Len(kw)) = kw}

\* the text of the first method whose line starts with header, up to the
\* line of the next method
MethodBody(code, breaks, header) ==
    LET from == SetMin(LinesWith(code, breaks, header))
        next == {k \in LinesWith(code, breaks, "    def ") : k > from}
    IN  SubSeq(code, from + 1, IF next = {} THEN Len(code) ELSE SetMin(next))

\* C15: for every element the generate_page_object tool accepts, the
\* generated class holds one locator declaration for it, with its
\* locator, and exactly the methods its element_type calls for, each
\* referring to the element's locator constant (elements of equal name
\* each count, nothing is de-duplicated); elements_count is the number
\* of locator declarations.
C15_DeclarationAndMethodsPerElement ==
    Tool3Succeeded
        => LET es     == Tool3ElementsArg
               code   == tool3_result.code
               breaks == LineBreaks(code)
               acc    == {k \in 1..Len(es) : Accepted(es[k])}
               ConstOf(k) == Upper(es[k].suggested_name)
               Same(k) == {j \in acc : ConstOf(j) = ConstOf(k)}
           IN  /\ \A k \in acc :
                    /\ Cardinality(LinesWith(code, breaks,
                                             "    " \o ConstOf(k) \o " = (By."))
                         = Cardinality(Same(k))
                    /\ \E by \in {"CSS_SELECTOR", "XPATH"} :
                         LinesWith(code, breaks,
                                   "    " \o ConstOf(k) \o " = (By." \o by
                                   \o ", \"" \o FirstLocator(es[k]) \o "\")\n") # {}
                    /\ \A p \in MethodPrefixes :
                         LET header == "    def " \o p \o Lower(ConstOf(k)) \o "(self"
                         IN  /\ Cardinality(LinesWith(code, breaks, header))
                                  = Cardinality({j \in Same(k) :
                                       p \in PrefixesOf(Get(es[j], "element_type", ""))})
                             /\ p \in PrefixesOf(Get(es[k], "element_type", ""))
                                  => LET body == MethodBody(code, breaks, header)
                                         ref  == "(*self." \o ConstOf(k)
                                     IN  \/ Contains(body, ref \o ")")
                                         \/ Contains(body, ref \o ",")
               /\ tool3_result.elements_count = Cardinality(acc)
               /\ tool3_result.elements_count = Occurrences(code, " = (By.")

\* two accepted checkboxes of the same name, and an element without methods
C15_Witness ==
    /\ Tool3Succeeded
    /\ tool3_result.elements_count = 2
    /\ Len(Tool3ElementsArg) = 2
    /\ Tool3ElementsArg[1] = Tool3ElementsArg[2]
    /\ Get(Tool3ElementsArg[1], "element_type", "") = "checkboxes"
    /\ Contains(tool3_result.code, "def uncheck_remember_me(self")

DeclarationLine(code, r) ==
    LET marks  == {k \in 1..(Len(code) - 6) : SubSeq(code, k, k + 6) = " = (By."}
        Rank(k) == Cardinality({j \in marks : j <= k})
        at     == {k \in marks : Rank(k) = r}
        breaks == LineBreaks(code)
    IN  IF at = {} THEN ""
        ELSE LET k == SetMin(at)
             IN  SubSeq(code, SetMax({b \in breaks : b < k}) + 1,
                              SetMin({b \in breaks : b > k}) - 1)

\* an element the discoverer returned for a node with an id and a name
HasIdAndName(elem) ==
    /\ IsDict(elem)
    /\ {"id", "name"} \subseteq DOMAIN elem
    /\ elem.id # ""
    /\ elem.name # ""

\* C17: for every discovered element with both an id and a name
\* attribute, the discoverer recorded the id candidate '#id' and no
\* name-based candidate, and the declaration the page-object tool
\* generates for the element holds the locator '#id'.
C17_IdLocatorWins ==
    Tool3Succeeded
        => LET es   == Tool3ElementsArg
               code == tool3_result.code
               acc  == {k \in 1..Len(es) : Accepted(es[k])}
           IN  \A k \in 1..Len(es) :
                 HasIdAndName(es[k])
                   => /\ es[k].locator_id = "#" \o es[k].id
                      /\ es[k].locator_css = ""
                      /\ ~Contains(es[k].locator_xpath, "@name=")
                      /\ k \in acc
                           => DeclarationLine(code, Cardinality({j \in acc : j <= k}))
                                = "    " \o Upper(es[k].suggested_name)
                                  \o " = (By.CSS_SELECTOR, \"#" \o es[k].id \o "\")"

\* a page object generated from the element <input id='email'
\* name='user.email'>, listed after another accepted element
C17_Witness ==
    /\ Tool3Succeeded
    /\ Len(Tool3ElementsArg) = 2
    /\ Accepted(Tool3ElementsArg[1])
    /\ HasIdAndName(Tool3ElementsArg[2])
    /\ Tool3ElementsArg[2].name = "user.email"
    /\ DeclarationLine(tool3_result.code, 2) = "    EMAIL = (By.CSS_SELECTOR, \"#email\")"

----------------------------------------------------------------------------
(* Properties of the element discoverer.                                   *)

\* the branch of the locator rule an element falls into: the first of
\* id, name, class, type, text that is not empty, else the tag
LocatorBranch(node) ==
    IF node.id # "" THEN "id"
    ELSE IF node.name # "" THEN "name"
    ELSE IF node.class # "" THEN "class"
    ELSE IF node.type # "" THEN "type"
    ELSE IF ElementText(node) # "" THEN "text"
    ELSE "tag"

\* the extraction of a displayed element that is not stale is over
ExtractedLive ==
    ex_pc = "done" /\ ex_node.displayed /\ ~ex_node.stale

\* C18: for every combination of tag, id, name, class, type and text of
\* an element, _generate_locators returns the candidates of exactly one
\* of the six branches, chosen in the order id, name, first class token,
\* type, text, tag: an xpath candidate is always present, and an id
\* candidate and a css candidate are never both present.
C18_OneBranchOfSix ==
    ExtractedLive
        => /\ ex_out # <<>>
           /\ LET e      == ex_out[1]
                  tag    == ex_node.tag_name
                  branch == LocatorBranch(ex_node)
              IN  /\ e.locator_xpath # ""
                  /\ ~(e.locator_id # "" /\ e.locator_css # "")
                  /\ (e.locator_id # "") <=> (branch = "id")
                  /\ (e.locator_css # "") <=> (branch \in {"name", "class", "type", "tag"})
                  /\ branch = "id" => Contains(e.locator_xpath, "[@id='")
                  /\ branch = "name" => /\ Contains(e.locator_css, "[name='")
                                        /\ Contains(e.locator_xpath, "[@name='")
                  /\ branch = "class" => /\ StartsWith(e.locator_css, tag \o ".")
                                         /\ Contains(e.locator_xpath, "[contains(@class, '")
                  /\ branch = "type" => /\ Contains(e.locator_css, "[type='")
                                        /\ Contains(e.locator_xpath, "[@type='")
                  /\ branch = "text" => Contains(e.locator_xpath, "[contains(text(), '")
                  /\ branch = "tag" => /\ e.locator_css = tag
                                       /\ e.locator_xpath = "//" \o tag

\* the candidate name of the extracted element
CandidateName ==
    NameSource(ex_type, ex_node.id, ex_node.name, ElementText(ex_node),
               ex_node.placeholder, ex_index)

\* an element for which element data was produced
Extracted == ex_pc = "done" /\ ex_out # <<>>

\* C19: for every discovered element whose candidate name (the first
\* non-empty of id, name, text, placeholder, '{element_type}_{index}') is
\* longer than 40 characters, the suggested_name has exactly 40
\* characters.
C19_LongCandidateExactly40 ==
    (Extracted /\ Len(CandidateName) > MaxNameLen)
        => Len(ex_out[1].suggested_name) = MaxNameLen

\* C19, amended: the suggested_name is the first 40 characters of the
\* cleaned candidate name (stripped, '-', ' ' and '.' replaced by '_',
\* other characters than letters, digits and '_' removed, upper-cased):
\* it never has more than 40 characters, and it has exactly 40 when the
\* cleaned name is longer than 40.
C19_CleanedNameCutAt40 ==
    Extracted
        => LET cleaned == CleanName(CandidateName)
               name    == ex_out[1].suggested_name
           IN  /\ Len(name) <= MaxNameLen
               /\ Len(cleaned) > MaxNameLen
                    => Len(name) = MaxNameLen /\ name = SubSeq(cleaned, 1, MaxNameLen)
               /\ Len(cleaned) <= MaxNameLen => name = cleaned

\* an element whose id of 46 characters is cut to 40
C19_Witness ==
    /\ Extracted
    /\ ex_node.id = LongId
    /\ Len(CleanName(CandidateName)) > MaxNameLen
    /\ ex_out[1].suggested_name = "CUSTOMER_REGISTRATION_FORM_EMAIL_ADDRESS"

\* a node whose data can be read: it is displayed and nothing raises
Readable(node) == node.displayed /\ ~ExtractRaises(node)

\* the position a node of the page has among the nodes of its category
IndexInCategory(page, k) ==
    Cardinality({j \in 1..(k - 1) : page[j].category = page[k].category})

RECURSIVE InOrder(_, _, _)
\* the data of the page nodes at the positions ks, in ascending order
InOrder(page, ks, element_type) ==
    IF ks = {} THEN <<>>
    ELSE LET k == SetMin(ks)
         IN  <<ElementData(page[k].node, element_type, IndexInCategory(page, k))>>
             \o InOrder(page, ks \ {k}, element_type)

RECURSIVE ReadableByCategory(_, _)
\* the data of the readable nodes of the page, by category from the t-th
\* on, in document order within a category
ReadableByCategory(page, t) ==
    IF t > Len(ElementTypes) THEN <<>>
    ELSE InOrder(page,
                 {k \in 1..Len(page) : /\ page[k].category = ElementTypes[t]
                                       /\ Readable(page[k].node)},
                 ElementTypes[t])
         \o ReadableByCategory(page, t + 1)

\* C20: for every page that loads and every subset of its nodes whose
\* extraction raises, discover_elements returns without raising, and its
\* result holds exactly the visible nodes whose extraction did not raise,
\* ordered by the eight categories and by document order within a
\* category.
C20_FailingNodesAreSkipped ==
    /\ disc_pc = "raised" => ~disc_loads
    /\ disc_pc = "done" => discovered = ReadableByCategory(disc_page, 1)

\* a page where a stale button comes before a readable one and a link
\* whose extraction raises before a readable link
C20_Witness ==
    /\ disc_pc = "done"
    /\ Len(disc_page) = 3
    /\ disc_page[1].node.stale
    /\ disc_page[2].category = "buttons"
    /\ Len(discovered) = 2
    /\ discovered[1].suggested_name = "SUBMITLOGIN"
    /\ discovered[2].suggested_name = "LINKS_0"

----------------------------------------------------------------------------
(* Properties of the parser loop: the 'and' line and the flushes.          *)

\* the loop of extract_scenarios has just processed line k
Processed(k) == story_pc = "parse" /\ line_no = k + 1

\* C23: a line starting with 'and' inside a scenario appends ' AND ' plus
\* its remainder to exactly one field, then if then is non-empty, otherwise
\* when if when is non-empty, otherwise given if given is non-empty; the
\* other two fields and the scenario name stay unchanged, the list of
\* closed scenarios too, and if all three fields are empty the line
\* changes nothing.
C23_AndAppendsToOneField ==
    [][(/\ story_pc = "parse"
        /\ line_no' = line_no + 1
        /\ Len(current_scenario) > 0
        /\ StartsWith(Lower(Strip(lines[line_no])), "and"))
       => LET old    == current_scenario[1]
              suffix == " AND " \o KeywordText(lines[line_no], "and")
          IN  /\ scenarios' = scenarios
              /\ Len(current_scenario') = 1
              /\ current_scenario'[1] =
                   IF old.then # "" THEN [old EXCEPT !.then = old.then \o suffix]
                   ELSE IF old.when # ""
                   THEN [old EXCEPT !.when = old.when \o suffix]
                   ELSE IF old.given # ""
                   THEN [old EXCEPT !.given = old.given \o suffix]
                   ELSE old]_vars

\* an 'and' line was appended to when while given was set and then was not
C23_Witness ==
    /\ \E k \in 1..Len(lines) :
          Processed(k) /\ StartsWith(Lower(Strip(lines[k])), "and")
    /\ Len(current_scenario) = 1
    /\ current_scenario[1].given = "a"
    /\ current_scenario[1].when = "b AND d"
    /\ current_scenario[1].then = ""

\* C24: every scenario record in the list returned by extract_scenarios
\* has at least one non-empty field among given, when and then, whether
\* the record was closed by a following scenario marker or by the end of
\* the input.
C24_RecordsHaveAField ==
    story_pc = "build"
        => \A k \in 1..Len(scenarios) :
               \/ scenarios[k].given # ""
               \/ scenarios[k].when # ""
               \/ scenarios[k].then # ""

----------------------------------------------------------------------------
(* Properties of the path resolver.                                        *)

\* the name with '_' before every uppercase letter except the first
\* character, lower-cased
Underscored(name) ==
    Join([k \in 1..Len(name) |->
            (IF k > 1 /\ IsUpperChar(Char(name, k)) THEN "_" ELSE "")
            \o Lower(Char(name, k))], "")

\* the fixed directory of a kind
KindDirectory(component_type, workflow) ==
    CASE component_type = "test" -> "tests/" \o workflow \o "/"
      [] component_type = "role" -> "framework/roles/"
      [] component_type = "task" -> "framework/tasks/"
      [] component_type = "page" -> "framework/pages/common/"

----------------------------------------------------------------------------
(* Properties of generate_test_name.                                       *)

\* only letters, digits and '_': no whitespace, no punctuation
OnlyWordChars(s) == \A k \in 1..Len(s) : IsWordChar(Char(s, k))

\* C27: generate_test_name always returns a name that starts with 'test_'
\* and contains no whitespace or punctuation, and it is a fixed point on
\* its own results: a scenario whose name is such a result maps to the same
\* name, and the 'test_' prefixing of tool 6 leaves the name unchanged.
C27_TestNameFixedPoint ==
    /\ name_pc \in {"named", "renamed", "done"}
         => StartsWith(name_out, "test_") /\ OnlyWordChars(name_out)
    /\ name_pc \in {"renamed", "done"} => name_again = name_out
    /\ name_pc = "done" => name_tool6 = name_out

\* a name with capitals, blanks and punctuation went through both calls
C27_Witness ==
    /\ name_pc = "done"
    /\ Get(name_args, "name", "") = "Add to\tcart (guest)"
    /\ name_out = "test_add_to_cart_guest"
    /\ name_again = name_out
    /\ name_tool6 = name_out

----------------------------------------------------------------------------
(* Properties of tool 2 and of the helper discover_page_elements.          *)

\* the call has returned to its caller, with a value or with an exception
Tool2Returned == tool2_pc \in {"done", "raised"}

\* C30: in the discover_elements tool, a driver that has been created is
\* quit exactly once before the call returns, whether discovery returns
\* elements or raises, and no discovery step runs after the quit;
\* discover_page_elements quits a driver only when it created that driver
\* itself and never quits one passed in by its caller.
C30_DriverQuitOnce ==
    /\ [](/\ quit_calls <= 1
          /\ (Tool2Returned /\ driver_owner \in {"tool", "helper"})
               => driver = "quit" /\ quit_calls = 1
          /\ (tool2_entry = "tool" /\ ~Tool2Returned)
               => driver # "quit" /\ quit_calls = 0
          /\ driver_owner = "caller" => driver = "open" /\ quit_calls = 0
          /\ driver_owner = "none" => driver = "none" /\ quit_calls = 0
          /\ created_driver <=> driver_owner = "helper")
    /\ [][driver = "quit" => UNCHANGED disc_vars]_vars

\* the tool returned an error envelope after navigation failed, and its
\* driver has been quit once
C30_Witness ==
    /\ tool2_entry = "tool"
    /\ tool2_pc = "done"
    /\ disc_pc = "raised"
    /\ tool2_result.status = "error"
    /\ driver_owner = "tool"
    /\ driver = "quit"
    /\ quit_calls = 1

\* C21: for every argument map, whatever the presence and type of its
\* values, a tool entry point returns an envelope whose status is
\* 'success' or 'error' and never lets an exception escape; an error
\* envelope always carries an error message.  Stated for the
\* discover_elements tool.
C21_EnvelopeAlwaysReturned ==
    tool2_entry = "tool"
        => /\ tool2_pc # "raised"
           /\ tool2_pc = "done"
                => /\ tool2_result.status \in {"success", "error"}
                   /\ tool2_result.status = "error"
                        => Get(tool2_result, "error", "") # ""

----------------------------------------------------------------------------
(* Properties of the role synthesizer and of tool 5.                       *)

Tool5Succeeded == tool5_pc = "done" /\ tool5_result.status = "success"

\* the name that follows "    def " on the line after line break k
DefinedName(code, k) ==
    LET from == k + Len("    def ") + 1
        open == SetMin({j \in from..Len(code) : Char(code, j) = "("})
    IN  SubSeq(code, from, open - 1)

\* the methods a class text defines, in the order of the text
DefinedMethods(code) ==
    LET defs == LinesWith(code, LineBreaks(code), "    def ")
        RECURSIVE InOrderFrom(_)
        InOrderFrom(ks) ==
            IF ks = {} THEN <<>>
            ELSE <<DefinedName(code, SetMin(ks))>>
                 \o InOrderFrom(ks \ {SetMin(ks)})
    IN  InOrderFrom(defs)

\* the statement that ends the first method whose line starts with header
Delegates(code, header, call) ==
    Contains(MethodBody(code, LineBreaks(code), header),
             "        return self.common_tasks." \o call \o "\n")

\* C26: the methods of a generated role class depend only on whether
\* 'can_login' is in the capability list: login, logout and is_logged_in,
\* each delegating to self.common_tasks, are all present when it is and
\* all absent when it is not; any other capability tag adds no method, and
\* the credentials argument changes nothing in the generated text.
C26_MethodsFromCanLoginOnly ==
    Tool5Succeeded
        => LET code == tool5_result.code
               caps == Tool5Capabilities
           IN  /\ DefinedMethods(code) =
                    IF \E k \in 1..Len(caps) : caps[k].text = "can_login"
                    THEN <<"__init__", "login", "logout", "is_logged_in">>
                    ELSE <<"__init__">>
               /\ (\E k \in 1..Len(caps) : caps[k].text = "can_login")
                    => /\ Delegates(code, "    def login(self)",
                                    "log_in(self.email, self.password)")
                       /\ Delegates(code, "    def logout(self)", "log_out()")
                       /\ Delegates(code, "    def is_logged_in(self)",
                                    "verify_logged_in()")
               /\ \A credentials \in CredentialDicts :
                    generate_role_template(Tool5RoleName, caps, credentials)
                        = code

\* a role with an unknown tag before 'can_login', and with credentials
C26_Witness ==
    /\ Tool5Succeeded
    /\ Tool5Capabilities = <<Json("str", "can_logout"), Json("str", "can_login")>>
    /\ "credentials" \in DOMAIN tool5_args
    /\ tool5_args.credentials # EmptyDict
    /\ Contains(tool5_result.code, "    def is_logged_in(self) -> bool:\n")

----------------------------------------------------------------------------
(* Properties of the six tools together.                                   *)

\* an error envelope that carries nothing a synthesizer or the path
\* resolver returns
PlainError(result) ==
    /\ result.status = "error"
    /\ Get(result, "error", "") # ""
    /\ "code" \notin DOMAIN result
    /\ "file_path" \notin DOMAIN result

\* C22: when a required field is missing or empty (user_story or workflow
\* for story parsing, url for discovery, page_name or elements for the
\* page object, task_name for the task, role_name for the role, test_name
\* or workflow for the test), the tool returns an error envelope before
\* doing any work: no parser, synthesizer or path resolver is called and
\* no browser driver is created.
C22_MissingFieldNoWork ==
    /\ (story_pc # "idle"
        /\ (story_args.user_story = "" \/ story_args.workflow = ""))
         => /\ story_pc \in {"start", "done"}
            /\ lines = <<>> /\ scenarios = <<>> /\ current_scenario = <<>>
            /\ story_pc = "done" => PlainError(story_result)
    /\ (tool2_entry = "tool" /\ ~JsonTruthy(Tool2Url))
         => /\ tool2_pc \in {"start", "done"}
            /\ driver = "none" /\ quit_calls = 0
            /\ disc_pc = "idle"
            /\ tool2_pc = "done" => PlainError(tool2_result)
    /\ (tool3_pc = "done"
        /\ (Tool3PageName = "" \/ Len(Tool3ElementsArg) = 0))
         => PlainError(tool3_result)
    /\ (tool4_pc = "done" /\ Tool4TaskName = "") => PlainError(tool4_result)
    /\ (tool5_pc = "done" /\ Tool5RoleName = "") => PlainError(tool5_result)
    /\ (test_pc = "done" /\ (TestName = "" \/ TestWorkflow = ""))
         => PlainError(test_result)

\* discovery was asked for without a url and has answered
C22_Witness ==
    /\ tool2_entry = "tool"
    /\ tool2_pc = "done"
    /\ "url" \notin DOMAIN tool2_args
    /\ "headless" \in DOMAIN tool2_args
    /\ tool2_result = [status |-> "error", error |-> "url is required"]
    /\ driver = "none"

----------------------------------------------------------------------------
(* Properties of the chain from a generated test to the generated task.    *)

\* the class name of the tasks of a workflow: auth -> AuthTasks
TaskClassName(workflow) == Capitalize(workflow) \o "Tasks"

\* the complete output of the task synthesizer for the tasks of a workflow:
\* one page object whose methods cover the login capability
CompleteTaskCode(workflow) ==
    generate_task_template(
        TaskClassName(workflow), "",
        <<PageObject("LoginPage", "framework/pages/common/login_page.py",
                     LoginMethods)>>)

AuthTasksCode == CompleteTaskCode("auth")

CatalogTasksCode == CompleteTaskCode("catalog")

CartTasksCode == CompleteTaskCode("cart")

\* the number of items of a comma-separated list, 0 for a blank text
ItemCount(text) == IF Strip(text) = "" THEN 0 ELSE Len(Split(text, ","))

\* the index of the first character c of text at or after k
NextChar(text, k, c) == SetMin({j \in k..Len(text) : Char(text, j) = c})

\* the methods a class text defines: name, and the number of parameters
\* after self
Signatures(code) ==
    { LET from  == k + Len("    def ") + 1
          open  == NextChar(code, from, "(")
          close == NextChar(code, open, ")")
      IN  <<SubSeq(code, from, open - 1),
            ItemCount(SubSeq(code, open + 1, close - 1)) - 1>> :
        k \in LinesWith(code, LineBreaks(code), "    def ") }

AuthTasksSignatures == Signatures(AuthTasksCode)

CatalogTasksSignatures == Signatures(CatalogTasksCode)

CartTasksSignatures == Signatures(CartTasksCode)

TaskSignatures(workflow) ==
    CASE workflow = "auth" -> AuthTasksSignatures
      [] workflow = "catalog" -> CatalogTasksSignatures
      [] workflow = "cart" -> CartTasksSignatures

\* the calls a fragment makes on receiver: name and number of arguments
CallsOn(fragment, receiver) ==
    { LET from  == k + Len(receiver)
          open  == NextChar(fragment, from, "(")
          close == NextChar(fragment, open, ")")
      IN  <<SubSeq(fragment, from, open - 1),
            ItemCount(SubSeq(fragment, open + 1, close - 1))>> :
        k \in {j \in 1..(Len(fragment) - Len(receiver) + 1) :
                 SubSeq(fragment, j, j + Len(receiver) - 1) = receiver} }

\* C28: for each workflow in {auth, catalog, cart} and every scenario the
\* mapper matches, every method that the mapped test-data, action and
\* assertion fragments call on {workflow}_tasks is defined by the task
\* synthesizer's complete output for {Workflow}Tasks, with a parameter
\* list that accepts the number of arguments of the call.
C28_CallsAreDefined ==
    (/\ map_pc = "done"
     /\ map_args.workflow \in {"auth", "catalog", "cart"}
     /\ RuleMatches)
        => \A k \in 1..3 :
               CallsOn(map_out[k], map_args.workflow \o "_tasks.")
                   \subseteq TaskSignatures(map_args.workflow)

\* the word that ends at position k of text
WordEndingAt(text, k) ==
    LET stops == {j \in 1..k : ~IsWordChar(Char(text, j))}
    IN  SubSeq(text, (IF stops = {} THEN 0 ELSE SetMax(stops)) + 1, k)

\* the task classes a test body instantiates: X in X(web_interface, base_url)
InstantiatedTaskClasses(code) ==
    LET call == "Tasks(web_interface, base_url)"
    IN  { WordEndingAt(code, k + Len("Tasks") - 1) :
            k \in {j \in 1..(Len(code) - Len(call) + 1) :
                     SubSeq(code, j, j + Len(call) - 1) = call} }

\* the names the import block of a test binds with "from ... import X"
ImportedNames(code) ==
    LET breaks == LineBreaks(code)
    IN  { LET ends == SetMin({j \in breaks : j > k})
              at   == Find(SubSeq(code, k + 1, ends - 1), " import ")
          IN  SubSeq(code, k + at + Len(" import "), ends - 1) :
            k \in LinesWith(code, breaks, "from ") }

\* C29: for every workflow in {auth, catalog, cart, checkout} and every
\* scenario, every task class that the body of the generated test
\* instantiates (fragments from the mapper included) is imported by the
\* import block of that test, and the imported module
\* tasks.{workflow}_tasks is the module at the path the resolver returns
\* for the task {Workflow}Tasks.
C29_InstantiatedClassesImported ==
    synth_pc = "done"
        => /\ InstantiatedTaskClasses(synth_code) \subseteq ImportedNames(synth_code)
           /\ Contains(synth_code,
                       "\nfrom tasks." \o synth_args.workflow \o "_tasks import "
                       \o TaskClassName(synth_args.workflow) \o "\n")
           /\ get_file_path_for_component("task",
                                          TaskClassName(synth_args.workflow), "None")
                = "framework/tasks/" \o synth_args.workflow \o "_tasks.py"

====
